---- MODULE Spec2Model ----
(***************************************************************************)
(* Model of IntoGroupBitrixService (src/script.js): the API access layer   *)
(* callMethod (response cache, minimum-interval rate limiter, quota retry) *)
(* the paginating task query getTasks and the report builder               *)
(* processPlanFactData.                                                    *)
(*                                                                         *)
(* Time is the reading of Date.now() in milliseconds.  Every await of the  *)
(* JavaScript code is a point where other invocations may run, so each     *)
(* action below is one synchronous run of the code between two awaits.     *)
(***************************************************************************)
EXTENDS Integers, Sequences, FiniteSets, TLC

\* ---------------------------------------------------------------- bounds
MaxCalls == 2        \* callMethod invocations made by the callers in one run
MaxTicks == 2        \* clock advances in one run
MaxQuota == 1        \* quota answers the service gives in one run
Epoch == 1000000     \* reading of Date.now() when the service is constructed
LongStep == 299500   \* a clock advance just short of the cache lifetime
MaxTasks == 1001     \* length of the longest task list the service holds
MaxRuns == 2         \* getTasks calls made in one run
MaxPlanFactTasks == 3   \* longest task list given to processPlanFactData
MaxResourceTasks == 4   \* longest list given to processProjectResources
MaxDetailLevel == 2     \* largest detailLevel
Year == 2026            \* the host's current year, a year of 365 days
MaxParams == 3          \* most keys of a parameter object
MaxFilterKeys == 2      \* most keys of a filter object
MaxLoads == 3           \* most loads started by the handlers

\* ------------------------------------------------------ program constants
RateDelay == 1000    \* this.rateLimit.delay
CacheTTL == 300000   \* lifetime of a cache entry
Backoff == 2000      \* wait before a quota retry
PageSize == 50       \* `limit` of getTasks
Ceiling == 1000      \* the offset at which getTasks stops asking

Calls == 1..MaxCalls
Steps == {RateDelay, LongStep}

VARIABLES
    clock,          \* Date.now()
    ticks,          \* clock advances made so far
    lastCall,       \* this.rateLimit.lastCall
    cache,          \* this.cache: key -> [data, timestamp]
    calls,          \* the invocations of callMethod, in order of invocation
    quota,          \* quota answers given by the service so far
    total,          \* number of tasks in the list the service holds
    gt,             \* the getTasks call: its locals and its history
    page,           \* the callMethod invocation getTasks is awaiting
    pf,             \* the processPlanFactData call: its input and its rows
    pr,             \* the processProjectResources call
    dr,             \* the getDateRange call
    qs,             \* the query string built for one parameter object
    ui              \* the application: its loads, currentData, the tables

\* The variables of the service and those of the calls of pure functions.
service == <<clock, ticks, lastCall, cache, calls, quota, total, gt, page>>
pure == <<pf, pr, dr, qs, ui>>
vars ==
    <<clock, ticks, lastCall, cache, calls, quota, total, gt, page, pf, pr,
      dr, qs, ui>>

\* ------------------------------------------------------------ JS values
JStr(s) == [type |-> "string", val |-> s]
JObj(o) == [type |-> "object", val |-> o]

\* JavaScript truthiness of a value, as used by `data.result || data`.
Truthy(j) ==
    \/ j.type = "object"
    \/ j.type = "string" /\ j.val # ""
    \/ j.type = "number" /\ j.val # 0

\* String.prototype.includes, on messages kept as sequences of words.
Includes(msg, word) == \E i \in DOMAIN msg : msg[i] = word

\* --------------------------------------------------------------- requests
\* A parameter object is the sequence of its leaves <<path, value>> in the
\* order in which the object's keys were inserted: that order is what
\* JSON.stringify walks.
UsersBase ==
    << <<"filter.ACTIVE", "Y">>, <<"filter.UF_DEPARTMENT", "5">>,
       <<"select.0", "ID">> >>
\* The same object with `select` given before `filter` and the two filter
\* keys given in the other order.
UsersSwapped ==
    << <<"select.0", "ID">>, <<"filter.UF_DEPARTMENT", "5">>,
       <<"filter.ACTIVE", "Y">> >>
UserParams == {UsersBase, UsersSwapped}

ProjectsRequest ==
    [method |-> "sonet_group.get",
     params |-> << <<"filter.ACTIVE", "Y">>, <<"limit", "50">>,
                   <<"select.0", "ID">> >>]
DepartmentsRequest ==
    [method |-> "department.get", params |-> << <<"select.0", "ID">> >>]
NoRequest == [method |-> "", params |-> <<>>]

\* Two parameter objects are semantically equal when they hold the same
\* leaves, whatever the insertion order.
Leaves(p) == {p[i] : i \in DOMAIN p}
SemEq(p, q) == Leaves(p) = Leaves(q)

\* JSON.stringify keeps the insertion order of the keys.
JSONstringify(p) == p

cacheKey(req) == <<req.method, JSONstringify(req.params)>>

\* The top-level key of a leaf and, for a leaf of a nested object or array,
\* its key inside that object.
PathTop(path) ==
    CASE path \in {"filter.ACTIVE", "filter.UF_DEPARTMENT", "filter.STATUS"}
             -> "filter"
      [] path = "select.0" -> "select"
      [] path = "order.ID" -> "order"
      [] OTHER -> path
PathSub(path) ==
    CASE path = "filter.ACTIVE" -> "ACTIVE"
      [] path = "filter.UF_DEPARTMENT" -> "UF_DEPARTMENT"
      [] path = "filter.STATUS" -> "STATUS"
      [] path = "select.0" -> "0"
      [] path = "order.ID" -> "ID"
      [] OTHER -> ""

\* What the loop of lines 30-48 appends to the query string for one leaf:
\* filter[k]=v for a non-empty filter value, select[i]=v for a selected
\* field, key=v for a non-empty scalar, and nothing for a leaf of any other
\* nested object.  A field is kept as <<key, subkey, value>>.
QueryFields(leaf) ==
    LET top == PathTop(leaf[1])
        sub == PathSub(leaf[1])
    IN IF top # leaf[1]
       THEN IF top = "filter"
            THEN IF leaf[2] # "" THEN << <<top, sub, leaf[2]>> >> ELSE <<>>
            ELSE IF top = "select" THEN << <<top, sub, leaf[2]>> >>
            ELSE <<>>
       ELSE IF leaf[2] # "" THEN << <<top, "", leaf[2]>> >> ELSE <<>>

\* The query string of the request: the fields of all leaves, in order.
RECURSIVE urlParams(_)
urlParams(p) ==
    IF p = <<>> THEN <<>> ELSE QueryFields(Head(p)) \o urlParams(Tail(p))

\* URLSearchParams.get: the query string carries key[subkey] = value.
Carries(query, top, sub, value) ==
    \E i \in DOMAIN query : query[i] = <<top, sub, value>>

\* ------------------------------------------------------- service answers
NoWords == <<>>
QuotaCode == <<"QUERY_LIMIT_EXCEEDED">>

OkBody(v) ==
    [ok |-> TRUE, error |-> NoWords, error_description |-> NoWords,
     result |-> v]
HttpFailure ==
    [ok |-> FALSE, error |-> NoWords, error_description |-> NoWords,
     result |-> JStr("")]
ServiceError ==
    [ok |-> TRUE, error |-> <<"ERROR_CORE">>,
     error_description |-> <<"Internal", "error">>, result |-> JStr("")]
QuotaBare ==
    [ok |-> TRUE, error |-> QuotaCode, error_description |-> NoWords,
     result |-> JStr("")]
QuotaDescribed ==
    [ok |-> TRUE, error |-> QuotaCode,
     error_description |-> <<"Too", "many", "requests">>,
     result |-> JStr("")]
NoBody ==
    [ok |-> TRUE, error |-> NoWords, error_description |-> NoWords,
     result |-> JStr("")]

\* The values of the `result` field in a successful body: a non-empty
\* string and the empty string (a falsy value).
Results == {JStr("r1"), JStr("")}
Bodies ==
    {OkBody(v) : v \in Results}
        \cup {HttpFailure, ServiceError, QuotaBare, QuotaDescribed}

IsQuotaAnswer(body) == body.ok /\ body.error = QuotaCode
IsFailure(body) == ~body.ok \/ body.error # NoWords

\* The message of the Error thrown for a failed answer (lines 60-69).
ErrorMessage(body) ==
    IF ~body.ok THEN <<"HTTP", "error!", "status:", "500">>
    ELSE IF body.error_description # NoWords THEN body.error_description
    ELSE body.error

\* `data.result || data` (line 72).
Unwrap(body) == IF Truthy(body.result) THEN body.result ELSE JObj(body)

\* The test of the catch block (line 83).
IsRetried(body) == Includes(ErrorMessage(body), "QUERY_LIMIT_EXCEEDED")

\* ------------------------------------------------------------ invocations
\* pc: idle (not yet invoked), rate (awaiting the rate-limit delay),
\*     fetch (request in flight), backoff (awaiting the retry delay),
\*     returned, thrown.
\* The fields after `result` record the history of the invocation:
\*   resp       the last answer it received
\*   hit        it was served from the cache on entry, without any await
\*   fresh      on entry, the cache held an entry for its key that had been
\*              stored less than CacheTTL before
\*   predAny    latest dispatch of the invocations settled before it began
\*   predOk     latest dispatch of the invocations that had returned a
\*              fetched result before it began
\*   nDisp, lastDisp, dispN   its dispatches: how many, the instant of the
\*              last one, and the number of re-entries made before that one
\*   nFail, lastFail          the quota failures caught: how many, and the
\*              instant of the last one
\*   reentries  the recursive calls of callMethod made for it
\*   quotaSeen  the answers with error code QUERY_LIMIT_EXCEEDED it received
\*   cleared    the cache was cleared while its last request was in flight
IdleCall ==
    [pc |-> "idle", req |-> NoRequest, now |-> 0, wake |-> 0,
     result |-> JStr(""),
     resp |-> NoBody, hit |-> FALSE, fresh |-> FALSE,
     predAny |-> 0, predOk |-> 0,
     nDisp |-> 0, lastDisp |-> 0, dispN |-> 0,
     nFail |-> 0, lastFail |-> 0, reentries |-> 0, quotaSeen |-> 0,
     cleared |-> FALSE]

Dispatched(rec, t) ==
    [rec EXCEPT !.pc = "fetch", !.nDisp = @ + 1, !.lastDisp = t,
                !.dispN = rec.reentries, !.cleared = FALSE]

\* RateLimit with the suspension computed wrongly: the elapsed time instead
\* of the remaining time.
RateLimitElapsed(rec, now) ==
    LET timeSinceLastCall == now - lastCall IN
    IF timeSinceLastCall < RateDelay
    THEN [rec EXCEPT !.pc = "rate", !.wake = now + timeSinceLastCall]
    ELSE Dispatched(rec, now)

\* The rate-limit test of lines 22-25 for an invocation that read the clock
\* at `now`: suspend for the remaining delay, or dispatch at once.
RateLimit(rec, now) ==
    LET timeSinceLastCall == now - lastCall IN
    IF timeSinceLastCall < RateDelay
    THEN [rec EXCEPT !.pc = "rate",
                     !.wake = now + (RateDelay - timeSinceLastCall)]
    ELSE Dispatched(rec, now)

\* The cache lookup of lines 15-20.
CacheHit(key, now) ==
    key \in DOMAIN cache /\ now - cache[key].timestamp < CacheTTL

\* CallMethodEntry with the rate-limit test made before the cache lookup.
CallMethodEntryRateFirst(rec, req) ==
    LET key == cacheKey(req)
        now == clock
        r0  == [rec EXCEPT !.req = req, !.now = now]
    IN IF now - lastCall < RateDelay
       THEN RateLimit(r0, now)
       ELSE IF CacheHit(key, now)
       THEN [r0 EXCEPT !.pc = "returned", !.result = cache[key].data,
                       !.hit = (rec.pc = "new"), !.wake = 0]
       ELSE RateLimit(r0, now)

\* The synchronous prefix of callMethod (lines 12-25): the cache lookup and
\* the rate-limit test, up to the first await.
CallMethodEntry(rec, req) ==
    LET key == cacheKey(req)
        now == clock
        r0  == [rec EXCEPT !.req = req, !.now = now]
    IN IF CacheHit(key, now)
       THEN [r0 EXCEPT !.pc = "returned", !.result = cache[key].data,
                       !.hit = (rec.pc = "new"), !.wake = 0]
       ELSE RateLimit(r0, now)

\* ---------------------------------------------------------------- getTasks
\* The service holds the tasks with ids 1..total, sorted by ascending id.
TaskCounts ==
    {0, PageSize - 1, PageSize, PageSize + 1, Ceiling - 1, Ceiling, MaxTasks}

\* The sizes of the list when the cache is cleared during getTasks.
ClearCounts == {PageSize - 1, PageSize + 1}

Min(a, b) == IF a <= b THEN a ELSE b

\* The slice [start, start + PageSize) of the list 1..n.
Slice(n, start) ==
    [i \in 1..(Min(n, start + PageSize) - Min(n, start)) |-> start + i]

\* The parameters of the request for the page at `start` (lines 116-122),
\* for a caller that passes filter and select, as getPlanFactData does.
TasksRequest(start) ==
    [method |-> "tasks.task.list",
     params |-> << <<"filter.STATUS", "5">>, <<"select.0", "ID">>,
                   <<"start", ToString(start)>>, <<"order.ID", "ASC">> >>]

TaskPage(n, start) == OkBody(JObj([tasks |-> Slice(n, start)]))
NoTaskList == OkBody(JObj([total |-> 0]))

\* `result && result.tasks` (line 127).
HasTasks(result) ==
    Truthy(result) /\ result.type = "object" /\ "tasks" \in DOMAIN result.val

\* IsShort that never ends the loop.
IsShortNever(tasks) == FALSE

\* The test that ends the loop at a short page (line 130).
IsShort(tasks) == Len(tasks) < PageSize

\* ReachedCeiling off by one.
ReachedCeilingLate(start) == start > Ceiling

\* The test that ends the loop at the safety ceiling (line 139).
ReachedCeiling(start) == start >= Ceiling

\* Concat that keeps only the page just received.
ConcatKeepsLast(allTasks, tasks) == tasks

\* allTasks.concat(result.tasks) (line 128).
Concat(allTasks, tasks) == allTasks \o tasks

\* pc: idle, await (awaiting callMethod), done (returned allTasks),
\*     rejected (the error of callMethod propagated).
\* History: runs (calls made so far), reqs (the offsets requested by this
\* call), lens (the length of each page received, -1 for a result without a
\* task list), faithful (every page received was the slice of the list),
\* cached (for each page received, whether it was served from the cache).
\* caller is the function that awaits the call, out is what the call hands
\* to it, and report is how the caller goes on.
Callers == {"getPlanFactData", "getProjectResources"}
Pending == [pc |-> "pending", tasks |-> <<>>, error |-> JStr("")]
NoReport == [pc |-> "awaiting", error |-> JStr(""), rows |-> <<>>]

\* `return allTasks` (line 144).
ReturnedTasks(allTasks) ==
    [pc |-> "returned", tasks |-> allTasks, error |-> JStr("")]

\* A rejection that hands over the pages collected so far.
RejectedPartial(allTasks, error) ==
    [pc |-> "rejected", tasks |-> allTasks, error |-> error]

\* The error thrown by the awaited callMethod (line 116) leaves getTasks,
\* which has no catch: the local allTasks is lost.
Rejected(allTasks, error) ==
    [pc |-> "rejected", tasks |-> <<>>, error |-> error]

\* The caller after `await this.getTasks(...)` (lines 563 and 602): its
\* catch rethrows the error (lines 593-596, 616-619), otherwise it goes on
\* to load the projects and the users.
CallerAfter(out) ==
    IF out.pc = "rejected"
    THEN [pc |-> "rejected", error |-> out.error, rows |-> <<>>]
    ELSE [pc |-> "loading", error |-> JStr(""), rows |-> <<>>]

IdleTasks ==
    [pc |-> "idle", start |-> 0, allTasks |-> <<>>,
     runs |-> 0, reqs |-> <<>>, lens |-> <<>>, faithful |-> TRUE,
     cached |-> <<>>, caller |-> "", out |-> Pending, report |-> NoReport]

\* The result of a returned invocation was read from the cache (line 18),
\* not taken from an answer of the network (line 79).
FromCache(rec) == rec.nDisp = 0 \/ IsFailure(rec.resp)

\* No processPlanFactData call.
NoPlanFact ==
    [pc |-> "idle", tasks |-> <<>>, users |-> "list", projects |-> "named",
     raised |-> FALSE, rows |-> <<>>]

\* No call of a pure function.
NoCall == [pc |-> "idle"]

\* The application after its constructor (lines 164-175): no load was
\* started, currentData holds two empty lists, the tables are untouched.
NoTable == [state |-> "initial", rows |-> <<>>]
NoLoads ==
    [loads |-> <<>>,
     currentData |-> [planFact |-> <<>>, projectResources |-> <<>>],
     table |-> [planFact |-> NoTable, projectResources |-> NoTable],
     error |-> FALSE]

NoPureCall ==
    pf = NoPlanFact /\ pr = NoCall /\ dr = NoCall /\ qs = NoCall
    /\ ui = NoLoads

Settled(c) == calls[c].pc \in {"returned", "thrown"}

Max(a, b) == IF a >= b THEN a ELSE b

\* The latest dispatch made by the invocations in `cs`, 0 if none.
RECURSIVE LatestDispatch(_)
LatestDispatch(cs) ==
    IF cs = {} THEN 0
    ELSE LET c == CHOOSE x \in cs : TRUE
         IN Max(IF calls[c].nDisp > 0 THEN calls[c].lastDisp ELSE 0,
                LatestDispatch(cs \ {c}))

\* A caller invokes callMethod(req): the record of the new invocation after
\* its synchronous prefix.
Invoke(req) ==
    LET key == cacheKey(req) IN
    CallMethodEntry(
        [IdleCall EXCEPT
            !.pc = "new",
            !.fresh = (key \in DOMAIN cache
                        /\ clock - cache[key].stored < CacheTTL),
            !.predAny = LatestDispatch({d \in Calls : Settled(d)}),
            !.predOk =
                LatestDispatch({d \in Calls : calls[d].pc = "returned"})],
        req)

\* Invocations are numbered in the order in which they are made.
NextFree(c) ==
    /\ calls[c].pc = "idle"
    /\ \A d \in Calls : d < c => calls[d].pc # "idle"

\* The state after `new IntoGroupBitrixService()` (lines 2-9), with no call
\* made yet.
Constructed ==
    /\ clock = Epoch
    /\ ticks = 0
    /\ lastCall = 0
    /\ cache = <<>>
    /\ calls = [c \in Calls |-> IdleCall]
    /\ quota = 0
    /\ gt = IdleTasks
    /\ page = IdleCall

Init == Constructed /\ total = 0 /\ NoPureCall

\* getUsers(params): one callMethod('user.get', ...) (lines 95-102).
getUsers(c, p) ==
    /\ NextFree(c)
    /\ calls' = [calls EXCEPT
                   ![c] = Invoke([method |-> "user.get", params |-> p])]
    /\ UNCHANGED <<clock, ticks, lastCall, cache, quota, total, gt,
                   page, pure>>

\* loadInitialData: Promise.all over getProjects and getDepartments, both
\* invoked in the same synchronous run (lines 211-216).
loadInitialData(c) ==
    /\ NextFree(c)
    /\ c + 1 \in Calls
    /\ calls' = [calls EXCEPT ![c] = Invoke(ProjectsRequest),
                              ![c + 1] = Invoke(DepartmentsRequest)]
    /\ UNCHANGED <<clock, ticks, lastCall, cache, quota, total, gt,
                   page, pure>>

\* callMethod(req) invoked in the synchronous run in which the cache was
\* cleared: the lookup of lines 15-20 finds nothing.
InvokeCleared(req) ==
    LET rec == [IdleCall EXCEPT
                   !.pc = "new",
                   !.predAny = LatestDispatch({d \in Calls : Settled(d)}),
                   !.predOk =
                       LatestDispatch({d \in Calls :
                                          calls[d].pc = "returned"}),
                   !.req = req,
                   !.now = clock]
    IN RateLimit(rec, clock)

\* An invocation whose request is in flight when the cache is cleared.
InFlightAtClear(rec) ==
    IF rec.pc = "fetch" THEN [rec EXCEPT !.cleared = TRUE] ELSE rec

\* refreshData (lines 492-503) up to its first await: cache.clear(), then
\* loadInitialData() invokes getProjects and getDepartments.  The records
\* of two invocations that are not in progress are taken for the new ones.
refreshData(c) ==
    /\ c + 1 \in Calls
    /\ \A d \in {c, c + 1} : calls[d].pc = "idle" \/ Settled(d)
    /\ \A d \in Calls : d < c => calls[d].pc # "idle"
    /\ cache' = <<>>
    /\ calls' = [d \in Calls |->
                   IF d = c THEN InvokeCleared(ProjectsRequest)
                   ELSE IF d = c + 1 THEN InvokeCleared(DepartmentsRequest)
                   ELSE InFlightAtClear(calls[d])]
    /\ page' = InFlightAtClear(page)
    /\ UNCHANGED <<clock, ticks, lastCall, quota, total, gt, pure>>

\* The timer of delay(...) at line 24 fires: the request is built and sent.
RateTimer(c) ==
    /\ calls[c].pc = "rate"
    /\ clock >= calls[c].wake
    /\ calls' = [calls EXCEPT ![c] = Dispatched(@, clock)]
    /\ UNCHANGED <<clock, ticks, lastCall, cache, quota, total, gt,
                   page, pure>>

\* RetryDue without the wait.
RetryDueAtOnce(failedAt) == failedAt

\* The instant at which delay(2000) of line 84 is due, for a failure caught
\* at `failedAt`.
RetryDue(failedAt) == failedAt + Backoff

\* The record of an invocation after the answer `body` (lines 60-88).
AfterAnswer(rec, body) ==
    LET seen == [rec EXCEPT !.resp = body,
                            !.quotaSeen =
                                @ + (IF IsQuotaAnswer(body) THEN 1 ELSE 0)]
    IN IF IsFailure(body)
       THEN IF IsRetried(body)
            THEN [seen EXCEPT !.pc = "backoff",
                              !.wake = RetryDue(clock),
                              !.nFail = @ + 1, !.lastFail = clock]
            ELSE [seen EXCEPT !.pc = "thrown", !.wake = 0,
                              !.result = JObj(ErrorMessage(body))]
       ELSE [seen EXCEPT !.pc = "returned", !.wake = 0,
                         !.result = Unwrap(body)]

\* LastCallAfter with the timestamp recorded before the answer is validated.
LastCallAlways(body) == clock

\* lastCall after the answer `body`: set only on the success path (line 71).
LastCallAfter(body) == IF IsFailure(body) THEN lastCall ELSE clock

\* CacheAfter that keeps only the entry just written.
CacheAfterOnlyNewest(rec, body) ==
    IF IsFailure(body) THEN cache
    ELSE cacheKey(rec.req)
             :> [data |-> Unwrap(body), timestamp |-> rec.now,
                 stored |-> clock, cleared |-> rec.cleared]

\* The cache after the answer `body` to invocation `rec`: the entry is
\* stamped with the `now` read at the start of the invocation (lines 74-77).
\* `stored` and `cleared` are history: the instant at which the entry was
\* written, and whether the cache was cleared while the request that brought
\* the data was in flight.
CacheAfter(rec, body) ==
    IF IsFailure(body) THEN cache
    ELSE (cacheKey(rec.req) :>
            [data |-> Unwrap(body), timestamp |-> rec.now,
             stored |-> clock, cleared |-> rec.cleared]) @@ cache

\* The answer to the request of invocation c arrives.
Respond(c, body) ==
    /\ calls[c].pc = "fetch"
    /\ quota' = quota + (IF IsQuotaAnswer(body) THEN 1 ELSE 0)
    /\ quota' <= MaxQuota
    /\ calls' = [calls EXCEPT ![c] = AfterAnswer(@, body)]
    /\ lastCall' = LastCallAfter(body)
    /\ cache' = CacheAfter(calls[c], body)
    /\ UNCHANGED <<clock, ticks, total, gt, page, pure>>

\* The timer of delay(2000) at line 84 fires: callMethod calls itself.
Reentry(rec) == CallMethodEntry([rec EXCEPT !.reentries = @ + 1], rec.req)

BackoffTimer(c) ==
    /\ calls[c].pc = "backoff"
    /\ clock >= calls[c].wake
    /\ calls' = [calls EXCEPT ![c] = Reentry(@)]
    /\ UNCHANGED <<clock, ticks, lastCall, cache, quota, total, gt,
                   page, pure>>

\* Time passes.
Tick(d) ==
    /\ ticks < MaxTicks
    /\ clock' = clock + d
    /\ ticks' = ticks + 1
    /\ UNCHANGED <<lastCall, cache, calls, quota, total, gt, page, pure>>

\* getTasks is called: the locals are set and the first page is requested
\* (lines 104-122).
getTasks(caller) ==
    /\ gt.pc \in {"idle", "done", "rejected"}
    /\ gt.runs < MaxRuns
    /\ gt' = [IdleTasks EXCEPT !.pc = "await", !.runs = gt.runs + 1,
                                !.reqs = <<0>>, !.caller = caller]
    /\ page' = Invoke(TasksRequest(0))
    /\ UNCHANGED <<clock, ticks, lastCall, cache, calls, quota, total, pure>>

\* The callMethod invocation awaited by getTasks: its rate-limit timer.
PageRateTimer ==
    /\ gt.pc = "await"
    /\ page.pc = "rate"
    /\ clock >= page.wake
    /\ page' = Dispatched(page, clock)
    /\ UNCHANGED <<clock, ticks, lastCall, cache, calls, quota, total,
                   gt, pure>>

\* The answers the service may give to the request for the page at `start`.
TaskAnswers == {"page", "nolist", "http", "quota"}
TaskBody(kind, start) ==
    CASE kind = "page" -> TaskPage(total, start)
      [] kind = "nolist" -> NoTaskList
      [] kind = "http" -> HttpFailure
      [] kind = "quota" -> QuotaBare

\* The answer to the page request arrives.
PageRespond(kind) ==
    /\ gt.pc = "await"
    /\ page.pc = "fetch"
    /\ LET body == TaskBody(kind, gt.start) IN
         /\ quota' = quota + (IF IsQuotaAnswer(body) THEN 1 ELSE 0)
         /\ quota' <= MaxQuota
         /\ page' = AfterAnswer(page, body)
         /\ lastCall' = LastCallAfter(body)
         /\ cache' = CacheAfter(page, body)
    /\ UNCHANGED <<clock, ticks, calls, total, gt, pure>>

\* The retry timer of the page request fires.
PageBackoffTimer ==
    /\ gt.pc = "await"
    /\ page.pc = "backoff"
    /\ clock >= page.wake
    /\ page' = Reentry(page)
    /\ UNCHANGED <<clock, ticks, lastCall, cache, calls, quota, total,
                   gt, pure>>

\* Time passes until the timer the page request is waiting for is due.
PageWait ==
    /\ gt.pc = "await"
    /\ page.pc \in {"rate", "backoff"}
    /\ clock < page.wake
    /\ clock' = page.wake
    /\ UNCHANGED <<ticks, lastCall, cache, calls, quota, total, gt,
                   page, pure>>

\* callMethod rejected: the error propagates out of getTasks.
TasksReject ==
    /\ gt.pc = "await"
    /\ page.pc = "thrown"
    /\ LET out == Rejected(gt.allTasks, page.result) IN
       gt' = [gt EXCEPT !.pc = "rejected", !.out = out,
                        !.report = CallerAfter(out)]
    /\ UNCHANGED <<clock, ticks, lastCall, cache, calls, quota, total,
                   page, pure>>

\* callMethod returned `result`: the body of the loop (lines 124-141), up to
\* the return or to the await of the next page.
TasksResume ==
    /\ gt.pc = "await"
    /\ page.pc = "returned"
    /\ LET result == page.result
           seen == [gt EXCEPT
                      !.faithful =
                          @ /\ result = Unwrap(TaskPage(total, gt.start)),
                      !.lens = Append(@, IF HasTasks(result)
                                         THEN Len(result.val.tasks) ELSE -1),
                      !.cached = Append(@, FromCache(page))]
       IN IF HasTasks(result)
          THEN LET all == Concat(gt.allTasks, result.val.tasks)
                   next == gt.start + PageSize
               IN IF IsShort(result.val.tasks)
                  THEN /\ gt' = [seen EXCEPT
                                    !.pc = "done", !.allTasks = all,
                                    !.out = ReturnedTasks(all),
                                    !.report =
                                        CallerAfter(ReturnedTasks(all))]
                       /\ page' = page
                  ELSE IF ReachedCeiling(next)
                  THEN /\ gt' = [seen EXCEPT
                                    !.pc = "done", !.allTasks = all,
                                    !.start = next,
                                    !.out = ReturnedTasks(all),
                                    !.report =
                                        CallerAfter(ReturnedTasks(all))]
                       /\ page' = page
                  ELSE /\ gt' = [seen EXCEPT !.allTasks = all,
                                             !.start = next,
                                             !.reqs = Append(@, next)]
                       /\ page' = Invoke(TasksRequest(next))
          ELSE /\ gt' = [seen EXCEPT
                            !.pc = "done",
                            !.out = ReturnedTasks(gt.allTasks),
                            !.report =
                                CallerAfter(ReturnedTasks(gt.allTasks))]
               /\ page' = page
    /\ UNCHANGED <<clock, ticks, lastCall, cache, calls, quota, total, pure>>

NextTasks ==
    \/ \E caller \in Callers : getTasks(caller)
    \/ PageRateTimer
    \/ \E kind \in TaskAnswers : PageRespond(kind)
    \/ PageBackoffTimer
    \/ PageWait
    \/ TasksReject
    \/ TasksResume

InitTasks == Constructed /\ total \in TaskCounts /\ NoPureCall

SpecTasks == InitTasks /\ [][NextTasks]_vars

Next ==
    \/ \E c \in Calls, p \in UserParams : getUsers(c, p)
    \/ \E c \in Calls : loadInitialData(c)
    \/ \E c \in Calls : RateTimer(c)
    \/ \E c \in Calls, body \in Bodies : Respond(c, body)
    \/ \E c \in Calls : BackoffTimer(c)
    \/ \E d \in Steps : Tick(d)

Spec == Init /\ [][Next]_vars

\* The service with the application's refresh button: the steps of Spec and
\* refreshData.
NextRefresh ==
    \/ \E c \in Calls, p \in UserParams : getUsers(c, p)
    \/ \E c \in Calls : loadInitialData(c)
    \/ \E c \in Calls : refreshData(c)
    \/ \E c \in Calls : RateTimer(c)
    \/ \E c \in Calls, body \in Bodies : Respond(c, body)
    \/ \E c \in Calls : BackoffTimer(c)
    \/ \E d \in Steps : Tick(d)

SpecRefresh == Init /\ [][NextRefresh]_vars

\* The refresh button is pressed, once, while getTasks awaits a page.
pressRefresh ==
    /\ gt.pc = "await"
    /\ NextFree(1)
    /\ refreshData(1)

\* The refresh button pressed while getTasks is loading the tasks of a
\* report: the steps of getTasks, and refreshData with the invocations it
\* makes.
NextClear ==
    \/ \E caller \in Callers : getTasks(caller)
    \/ PageRateTimer
    \/ \E kind \in TaskAnswers : PageRespond(kind)
    \/ PageBackoffTimer
    \/ PageWait
    \/ TasksReject
    \/ TasksResume
    \/ pressRefresh
    \/ \E c \in Calls : RateTimer(c)
    \/ \E c \in Calls, body \in Bodies : Respond(c, body)
    \/ \E c \in Calls : BackoffTimer(c)

InitClear == Constructed /\ total \in ClearCounts /\ NoPureCall

SpecClear == InitClear /\ [][NextClear]_vars

\* ---------------------------------------------------- processPlanFactData
\* Strings of the program are kept as sequences of words, so that template
\* literals and trim() can be computed; the Russian literals of the source
\* are transliterated.  A field that is undefined, null or '' is "".
Unassigned == <<"Ne", "naznachen">>
Untitled == <<"Bez", "nazvaniya">>
SummaryTitle == <<"Summa", "po", "vsem", "zadacham">>

\* The value undefined where a string is expected; "#undefined" is not a
\* word of any string of the program.
Undefined == <<"#undefined">>

\* The `users` argument: the list of users, or null.
UsersArgs == {"list", "null"}
\* The `projectMap` argument: the projects with their NAME, or projects
\* that have no NAME.
ProjectMapArgs == {"named", "unnamed"}

\* Number.NaN, the result of parseInt on a string that does not start with
\* a number; the numbers of the program are not negative.
NaN == -1
isNaN(x) == x = NaN

\* The `+` and `/` of JavaScript numbers: NaN is absorbing.
Plus(a, b) == IF isNaN(a) \/ isNaN(b) THEN NaN ELSE a + b
Quotient(a, b) == IF isNaN(a) THEN NaN ELSE a \div b

\* parseInt on the strings that occur as ids and as durations.
parseInt(s) ==
    CASE s = "0" -> 0
      [] s = "1" -> 1
      [] s = "5" -> 5
      [] s = "7" -> 7
      [] s = "8" -> 8
      [] s = "10" -> 10
      [] s = "20" -> 20
      [] s = "3600" -> 3600
      [] s = "7200" -> 7200
      [] OTHER -> NaN

\* The users and the projects passed with the tasks: user 5 is known, users
\* 7 and 8 are not (a department filter leaves them out); project 10 is
\* known, project 20 is not.
PlanFactUsers == << [ID |-> "5", NAME |-> "Ann", LAST_NAME |-> "K"] >>
PlanFactProjects == << [ID |-> "10", NAME |-> "Alpha"] >>
UnnamedProjects == << [ID |-> "10", NAME |-> "#undefined"] >>

PlanFactTask(id, title, groupId, responsibleId, timeEstimate, spent) ==
    [id |-> id, title |-> title, groupId |-> groupId,
     responsibleId |-> responsibleId, timeEstimate |-> timeEstimate,
     timeSpentInLogs |-> spent]

\* The tasks a list is drawn from: two tasks of one user in one project,
\* tasks of two unknown users, a task of an unknown project without a
\* title, tasks without a project, without a responsible user and without
\* both, a task of project 20 with the id of a task of project 10, and a
\* task whose estimate is not a number.
TaskPool ==
    { PlanFactTask("1", <<"A">>, "10", "5", "3600", "7200"),
      PlanFactTask("2", <<"B">>, "10", "5", "7200", "3600"),
      PlanFactTask("3", <<"B">>, "10", "7", "", "3600"),
      PlanFactTask("4", <<"A">>, "10", "8", "3600", ""),
      PlanFactTask("5", <<>>, "20", "5", "3600", "3600"),
      PlanFactTask("6", <<"A">>, "", "5", "3600", "3600"),
      PlanFactTask("7", <<"A">>, "10", "", "3600", "3600"),
      PlanFactTask("8", <<"A">>, "", "", "3600", "3600"),
      PlanFactTask("1", <<"C">>, "20", "5", "7200", "7200"),
      PlanFactTask("9", <<"B">>, "20", "5", "abc", "3600") }

\* The task lists of at most MaxPlanFactTasks tasks; a task may occur more
\* than once.
TaskLists ==
    UNION {[1..n -> TaskPool] : n \in 0..MaxPlanFactTasks}

\* Map.get on a Map filled by set(parseInt(x.ID), x) for each x in turn
\* (lines 624-627, 575-578): the last entry with that id, as a sequence of
\* at most one element.
MapGet(entries, id) ==
    LET hits == {i \in DOMAIN entries : parseInt(entries[i].ID) = id} IN
    IF hits = {} THEN <<>>
    ELSE << entries[CHOOSE i \in hits : \A j \in hits : j <= i] >>

\* String.prototype.trim on a string of words joined by single blanks.
Trim(words) == SelectSeq(words, LAMBDA w : w # "")

\* The display name of the responsible user (lines 640-641).
UserName(userId) ==
    LET user == MapGet(PlanFactUsers, userId) IN
    IF user = <<>> THEN Unassigned
    ELSE Trim(<<user[1].NAME, user[1].LAST_NAME>>)

\* The display name of the project (lines 643-644).
ProjectName(projectId) ==
    LET projectMap == IF pf.projects = "unnamed" THEN UnnamedProjects
                      ELSE PlanFactProjects
        project == MapGet(projectMap, parseInt(projectId))
    IN
    IF project = <<>> THEN <<"Proekt", projectId>>
    ELSE <<project[1].NAME>>

\* The guard of line 634: a task is kept when it has both ids.
Retained(task) == task.groupId # "" /\ task.responsibleId # ""

\* `${projectId}-${userId}` (line 646), kept as the pair.
GroupKey(task) == <<task.groupId, parseInt(task.responsibleId)>>

\* Seconds of a duration field, 0 when the field is missing (lines 666, 671).
Seconds(field) == IF field # "" THEN parseInt(field) ELSE 0

\* seconds / 3600 (lines 667, 672); the durations are whole hours.
Hours(seconds) == Quotient(seconds, 3600)

\* HasGroup that never finds the group.
HasGroupNever(groups, key) == FALSE

\* userTaskMap.has(key) (line 647).
HasGroup(groups, key) == \E i \in DOMAIN groups : groups[i].key = key

\* userData.tasks.has(taskId) (line 658).
HasTask(tasks, taskId) == \E j \in DOMAIN tasks : tasks[j].taskId = taskId

\* AddHours that keeps only the last addend.
AddHoursLast(sum, hours) == hours

\* `+=` on a total of the group (lines 669, 674).
AddHours(sum, hours) == Plus(sum, hours)

\* One pass of the forEach body of lines 633-675 over the groups collected
\* so far; the groups and the tasks of a group are kept in insertion
\* order, as a Map iterates.  `key` and `taskId` also serve as history.
AddTask(groups, task) ==
    IF ~Retained(task) THEN groups
    ELSE
      LET key == GroupKey(task)
          taskId == task.id
          withGroup ==
              IF HasGroup(groups, key) THEN groups
              ELSE Append(groups,
                          [key |-> key,
                           projectName |-> ProjectName(task.groupId),
                           userName |-> UserName(key[2]),
                           tasks |-> <<>>,
                           totalActual |-> 0, totalPlanned |-> 0])
          g == CHOOSE i \in DOMAIN withGroup : withGroup[i].key = key
          userData == withGroup[g]
          withTask ==
              IF HasTask(userData.tasks, taskId) THEN userData.tasks
              ELSE Append(userData.tasks,
                          [taskId |-> taskId,
                           title |-> IF task.title # <<>> THEN task.title
                                     ELSE Untitled,
                           actualHours |-> 0, plannedHours |-> 0])
          t == CHOOSE j \in DOMAIN withTask : withTask[j].taskId = taskId
          actualHours == Hours(Seconds(task.timeSpentInLogs))
          plannedHours == Hours(Seconds(task.timeEstimate))
      IN [withGroup EXCEPT
            ![g] = [userData EXCEPT
                      !.tasks =
                          [withTask EXCEPT
                             ![t].actualHours = Plus(@, actualHours),
                             ![t].plannedHours = Plus(@, plannedHours)],
                      !.totalActual = AddHours(@, actualHours),
                      !.totalPlanned = AddHours(@, plannedHours)]]

\* tasks.forEach (line 633).
RECURSIVE Grouped(_)
Grouped(tasks) ==
    IF tasks = <<>> THEN <<>>
    ELSE AddTask(Grouped(SubSeq(tasks, 1, Len(tasks) - 1)),
                 tasks[Len(tasks)])

\* The rows pushed for one group (lines 680-701): a detail row per task,
\* then the summary row.  `key` and `taskId` are history: the rows of the
\* program carry names only.
GroupRows(userData) ==
    [j \in DOMAIN userData.tasks |->
        [projectName |-> userData.projectName,
         userName |-> userData.userName,
         taskTitle |-> userData.tasks[j].title,
         actualHours |-> userData.tasks[j].actualHours,
         plannedHours |-> userData.tasks[j].plannedHours,
         isSummary |-> FALSE,
         key |-> userData.key, taskId |-> userData.tasks[j].taskId]]
    \o << [projectName |-> userData.projectName,
           userName |-> userData.userName,
           taskTitle |-> SummaryTitle,
           actualHours |-> userData.totalActual,
           plannedHours |-> userData.totalPlanned,
           isSummary |-> TRUE,
           key |-> userData.key, taskId |-> ""] >>

\* The loop of lines 678-702.
RECURSIVE Pushed(_)
Pushed(groups) ==
    IF groups = <<>> THEN <<>>
    ELSE GroupRows(Head(groups)) \o Pushed(Tail(groups))

\* The collation order of the words that occur: digits, then Latin, then
\* Cyrillic words; undefined as an argument of localeCompare is the string
\* 'undefined'.
WordRank(w) ==
    CASE w = "10" -> 1
      [] w = "20" -> 2
      [] w = "A" -> 3
      [] w = "Alpha" -> 4
      [] w = "Ann" -> 5
      [] w = "B" -> 6
      [] w = "C" -> 7
      [] w = "K" -> 8
      [] w = "#undefined" -> 9
      [] w = "Bez" -> 10
      [] w = "nazvaniya" -> 11
      [] w = "naznachen" -> 12
      [] w = "Ne" -> 13
      [] w = "po" -> 14
      [] w = "Proekt" -> 15
      [] w = "Summa" -> 16
      [] w = "vsem" -> 17
      [] w = "zadacham" -> 18

\* String.prototype.localeCompare: negative, zero or positive.
RECURSIVE localeCompare(_, _)
localeCompare(a, b) ==
    IF a = <<>> THEN (IF b = <<>> THEN 0 ELSE -1)
    ELSE IF b = <<>> THEN 1
    ELSE IF WordRank(Head(a)) < WordRank(Head(b)) THEN -1
    ELSE IF WordRank(Head(a)) > WordRank(Head(b)) THEN 1
    ELSE localeCompare(Tail(a), Tail(b))

\* The comparator of lines 705-711.
Compare(a, b) ==
    IF a.projectName # b.projectName
    THEN localeCompare(a.projectName, b.projectName)
    ELSE IF a.userName # b.userName
    THEN localeCompare(a.userName, b.userName)
    ELSE IF a.isSummary /\ ~b.isSummary THEN 1
    ELSE IF ~a.isSummary /\ b.isSummary THEN -1
    ELSE localeCompare(a.taskTitle, b.taskTitle)

\* Array.prototype.sort (line 705) is stable: a row goes behind the rows
\* that do not compare greater than it.
RECURSIVE Inserted(_, _)
Inserted(sorted, row) ==
    IF sorted = <<>> THEN <<row>>
    ELSE IF Compare(row, Head(sorted)) < 0 THEN <<row>> \o sorted
    ELSE <<Head(sorted)>> \o Inserted(Tail(sorted), row)
RECURSIVE Sorted(_)
Sorted(rows) ==
    IF rows = <<>> THEN <<>>
    ELSE Inserted(Sorted(SubSeq(rows, 1, Len(rows) - 1)), rows[Len(rows)])

\* The comparator raises a TypeError when it reads localeCompare of a
\* projectName that is undefined (line 706).
CompareRaises(a, b) ==
    a.projectName # b.projectName /\ a.projectName = Undefined

\* The sort raises when one of its calls of the comparator does.  Which of
\* the two rows the engine passes first is not fixed by the language:
\* `newFirst` tells whether it is the row being inserted.
RECURSIVE InsertRaises(_, _, _)
InsertRaises(sorted, row, newFirst) ==
    IF sorted = <<>> THEN FALSE
    ELSE IF newFirst /\ CompareRaises(row, Head(sorted)) THEN TRUE
    ELSE IF ~newFirst /\ CompareRaises(Head(sorted), row) THEN TRUE
    ELSE IF Compare(row, Head(sorted)) < 0 THEN FALSE
    ELSE InsertRaises(Tail(sorted), row, newFirst)
RECURSIVE SortRaises(_, _)
SortRaises(rows, newFirst) ==
    IF rows = <<>> THEN FALSE
    ELSE LET front == SubSeq(rows, 1, Len(rows) - 1) IN
         \/ SortRaises(front, newFirst)
         \/ InsertRaises(Sorted(front), rows[Len(rows)], newFirst)

\* Caught that returns the rows collected so far.
CaughtPartial(rows) == rows

\* The return value of the catch blocks (lines 713-716 and 811-814).
Caught(rows) == <<>>

\* processPlanFactData(tasks, users, projectMap) (lines 622-717); a
\* TypeError is raised by users.forEach when users is null (line 624) and
\* by the comparator.  `raised` is history.
processPlanFactData(newFirst) ==
    /\ pf.pc = "called"
    /\ LET result == IF pf.users = "null" THEN <<>>
                     ELSE Pushed(Grouped(pf.tasks))
           raised == pf.users = "null" \/ SortRaises(result, newFirst)
       IN pf' = [pf EXCEPT
                   !.pc = "returned",
                   !.raised = raised,
                   !.rows = IF raised THEN Caught(result)
                            ELSE Sorted(result)]
    /\ UNCHANGED <<service, pr, dr, qs, ui>>

NextPlanFact == \E newFirst \in BOOLEAN : processPlanFactData(newFirst)

InitPlanFact ==
    /\ Constructed
    /\ total = 0
    /\ pf \in {[pc |-> "called", tasks |-> tasks, users |-> u,
                projects |-> p, raised |-> FALSE, rows |-> <<>>] :
                  tasks \in TaskLists, u \in UsersArgs,
                  p \in ProjectMapArgs}
    /\ pr = NoCall /\ dr = NoCall /\ qs = NoCall /\ ui = NoLoads

SpecPlanFact == InitPlanFact /\ [][NextPlanFact]_vars

\* ------------------------------------------------ processProjectResources
TotalTitle == <<"ITOGO", "PO", "PROEKTU">>
TotalLevel == 999

\* The `project` argument: a project with a NAME, or undefined.
ProjectArgs == {"named", "undefined"}
ResourceProject == [ID |-> "10", NAME |-> "Alpha"]

ResourceTask(id, parentId, responsibleId, timeEstimate, spent) ==
    [id |-> id, parentId |-> parentId, title |-> <<"A">>, groupId |-> "10",
     responsibleId |-> responsibleId, timeEstimate |-> timeEstimate,
     timeSpentInLogs |-> spent]

\* The tasks a list is drawn from: a chain 1 <- 2 <- 3, a task whose parent
\* 7 is not in any list, and a task that names itself as its parent.  The
\* estimate of task 3 is not a number and task 4 has no time spent.
ResourcePool ==
    { ResourceTask("1", "", "5", "3600", "7200"),
      ResourceTask("2", "1", "5", "7200", "3600"),
      ResourceTask("3", "2", "7", "abc", "3600"),
      ResourceTask("4", "7", "5", "3600", ""),
      ResourceTask("5", "5", "5", "3600", "3600") }

\* The lists of at most MaxResourceTasks tasks with distinct ids, in every
\* order.
ResourceLists ==
    UNION {{l \in [1..n -> ResourcePool] :
               \A i, j \in 1..n : i # j => l[i].id # l[j].id} :
           n \in 0..MaxResourceTasks}
DetailLevels == 0..MaxDetailLevel

\* The hours of a duration field, 0 when the field is missing, empty or
\* not a number (lines 731-736).
GuardedHours(field) ==
    IF field # "" /\ ~isNaN(parseInt(field))
    THEN Quotient(parseInt(field), 3600) ELSE 0

\* projectTotalActual and projectTotalPlanned with only the first task.
TotalsOfFirst(tasks) ==
    IF tasks = <<>> THEN [actual |-> 0, planned |-> 0]
    ELSE [actual |-> GuardedHours(tasks[1].timeSpentInLogs),
          planned |-> GuardedHours(tasks[1].timeEstimate)]

\* projectTotalActual and projectTotalPlanned after the forEach of lines
\* 730-748.
RECURSIVE Totals(_)
Totals(tasks) ==
    IF tasks = <<>> THEN [actual |-> 0, planned |-> 0]
    ELSE LET rest == Totals(SubSeq(tasks, 1, Len(tasks) - 1))
             task == tasks[Len(tasks)]
         IN [actual |->
                 Plus(rest.actual, GuardedHours(task.timeSpentInLogs)),
             planned |->
                 Plus(rest.planned, GuardedHours(task.timeEstimate))]

\* Map.set (line 738): the value of an existing key is replaced in place, a
\* new key goes to the end.
MapSet(entries, task) ==
    IF \E i \in DOMAIN entries : entries[i].id = task.id
    THEN [i \in DOMAIN entries |->
             IF entries[i].id = task.id THEN task ELSE entries[i]]
    ELSE Append(entries, task)

\* taskMap after the forEach of lines 730-748, in iteration order.
RECURSIVE TaskMap(_)
TaskMap(tasks) ==
    IF tasks = <<>> THEN <<>>
    ELSE MapSet(TaskMap(SubSeq(tasks, 1, Len(tasks) - 1)), tasks[Len(tasks)])

\* taskMap.has (line 752).
MapHas(entries, id) == \E i \in DOMAIN entries : entries[i].id = id

\* IsRoot that takes only a task without parentId for a root.
IsRootWithoutParent(entries, task) == task.parentId = ""

\* The test of line 752: the task goes to the top of the hierarchy.
IsRoot(entries, task) ==
    task.parentId = "" \/ ~MapHas(entries, task.parentId)

\* `hierarchy` and the `children` of a task after the loop of lines 751-761.
Hierarchy(entries) == SelectSeq(entries, LAMBDA t : IsRoot(entries, t))
Children(entries, id) ==
    SelectSeq(entries, LAMBDA t : ~IsRoot(entries, t) /\ t.parentId = id)

\* The row pushed for a task at lines 768-782, and the row of the totals
\* (lines 795-803); rows of tasks have no isProjectTotal in the program,
\* which reads as false.
ResourceRow(task, level) ==
    LET user == MapGet(PlanFactUsers, parseInt(task.responsibleId)) IN
    [projectName |-> <<"Proekt", task.groupId>>,
     taskId |-> task.id,
     taskTitle |-> IF task.title # <<>> THEN task.title ELSE Untitled,
     subtaskTitle |-> IF level > 0 THEN <<"Uroven", ToString(level)>>
                      ELSE <<>>,
     userId |-> task.responsibleId,
     userName |-> IF user = <<>> THEN Unassigned
                  ELSE Trim(<<user[1].NAME, user[1].LAST_NAME>>),
     actualHours |-> GuardedHours(task.timeSpentInLogs),
     plannedHours |-> GuardedHours(task.timeEstimate),
     level |-> level,
     isProjectTotal |-> FALSE]
TotalRow(totals) ==
    [projectName |-> <<ResourceProject.NAME>>,
     taskId |-> "",
     taskTitle |-> TotalTitle,
     subtaskTitle |-> <<>>,
     userId |-> "",
     userName |-> <<>>,
     actualHours |-> totals.actual,
     plannedHours |-> totals.planned,
     level |-> TotalLevel,
     isProjectTotal |-> TRUE]

\* flattenHierarchy without the two tests on the level.
RECURSIVE flattenHierarchyAll(_, _, _, _)
flattenHierarchyAll(tasks, level, detailLevel, entries) ==
    IF tasks = <<>> THEN <<>>
    ELSE LET task == Head(tasks)
             children == Children(entries, task.id)
         IN <<ResourceRow(task, level)>>
            \o flattenHierarchyAll(children, level + 1, detailLevel, entries)
            \o flattenHierarchyAll(Tail(tasks), level, detailLevel, entries)

\* flattenHierarchy that pushes the row of a task after those of its
\* children.
RECURSIVE flattenHierarchyPost(_, _, _, _)
flattenHierarchyPost(tasks, level, detailLevel, entries) ==
    IF tasks = <<>> THEN <<>>
    ELSE LET task == Head(tasks)
             children == Children(entries, task.id)
         IN (IF children # <<>> /\ level < detailLevel
             THEN flattenHierarchyPost(children, level + 1, detailLevel,
                                       entries)
             ELSE <<>>)
            \o (IF level <= detailLevel
                THEN <<ResourceRow(task, level)>> ELSE <<>>)
            \o flattenHierarchyPost(Tail(tasks), level, detailLevel, entries)

\* flattenHierarchy that gives a row only to the tasks at the detail level
\* and to the tasks without children.
RECURSIVE flattenHierarchyLeaves(_, _, _, _)
flattenHierarchyLeaves(tasks, level, detailLevel, entries) ==
    IF tasks = <<>> THEN <<>>
    ELSE LET task == Head(tasks)
             children == Children(entries, task.id)
         IN (IF level = detailLevel \/ (level < detailLevel /\ children = <<>>)
             THEN <<ResourceRow(task, level)>> ELSE <<>>)
            \o (IF children # <<>> /\ level < detailLevel
                THEN flattenHierarchyLeaves(children, level + 1,
                                            detailLevel, entries)
                ELSE <<>>)
            \o flattenHierarchyLeaves(Tail(tasks), level, detailLevel,
                                      entries)

\* flattenHierarchy(tasks, level) of lines 763-791.
RECURSIVE flattenHierarchy(_, _, _, _)
flattenHierarchy(tasks, level, detailLevel, entries) ==
    IF tasks = <<>> THEN <<>>
    ELSE LET task == Head(tasks)
             children == Children(entries, task.id)
         IN (IF level <= detailLevel
             THEN <<ResourceRow(task, level)>> ELSE <<>>)
            \o (IF children # <<>> /\ level < detailLevel
                THEN flattenHierarchy(children, level + 1, detailLevel,
                                      entries)
                ELSE <<>>)
            \o flattenHierarchy(Tail(tasks), level, detailLevel, entries)

\* The comparator of lines 806-810.
CompareTotal(a, b) ==
    IF a.isProjectTotal /\ ~b.isProjectTotal THEN 1
    ELSE IF ~a.isProjectTotal /\ b.isProjectTotal THEN -1
    ELSE 0

\* InsertedTotal that puts the row in front.
InsertedInFront(sorted, row) == <<row>> \o sorted

\* The stable sort of line 805, as Inserted and Sorted.
RECURSIVE InsertedTotal(_, _)
InsertedTotal(sorted, row) ==
    IF sorted = <<>> THEN <<row>>
    ELSE IF CompareTotal(row, Head(sorted)) < 0 THEN <<row>> \o sorted
    ELSE <<Head(sorted)>> \o InsertedTotal(Tail(sorted), row)
RECURSIVE SortedTotal(_)
SortedTotal(rows) ==
    IF rows = <<>> THEN <<>>
    ELSE InsertedTotal(SortedTotal(SubSeq(rows, 1, Len(rows) - 1)),
                       rows[Len(rows)])

\* The rows of lines 793-810 when nothing is raised.
ResourceRows(tasks, detailLevel) ==
    LET entries == TaskMap(tasks)
        taskList == flattenHierarchy(Hierarchy(entries), 0, detailLevel,
                                     entries)
    IN SortedTotal(Append(taskList, TotalRow(Totals(tasks))))

\* A TypeError is raised by users.forEach when users is null (line 721)
\* and by project.NAME when project is undefined (line 796).
ResourcesRaise(users, project) == users = "null" \/ project = "undefined"

\* processProjectResources(tasks, users, project, detailLevel) (lines
\* 718-814).  `raised` is history.
processProjectResources ==
    /\ pr.pc = "called"
    /\ LET raised == ResourcesRaise(pr.users, pr.project)
           entries == TaskMap(pr.tasks)
           taskList == IF pr.users = "null" THEN <<>>
                       ELSE flattenHierarchy(Hierarchy(entries), 0,
                                             pr.detailLevel, entries)
       IN pr' = [pr EXCEPT
                   !.pc = "returned",
                   !.raised = raised,
                   !.rows = IF raised THEN Caught(taskList)
                            ELSE ResourceRows(pr.tasks, pr.detailLevel)]
    /\ UNCHANGED <<service, pf, dr, qs, ui>>

NextResources == processProjectResources

InitResources ==
    /\ Constructed
    /\ total = 0
    /\ pr \in {[pc |-> "called", tasks |-> tasks, detailLevel |-> d,
                users |-> u, project |-> p, raised |-> FALSE,
                rows |-> <<>>] :
                  tasks \in ResourceLists, d \in DetailLevels,
                  u \in UsersArgs, p \in ProjectArgs}
    /\ pf = NoPlanFact /\ dr = NoCall /\ qs = NoCall /\ ui = NoLoads

SpecResources == InitResources /\ [][NextResources]_vars

\* A call of one of the two aggregation functions.
InitAggregation == InitPlanFact \/ InitResources
NextAggregation ==
    \/ \E newFirst \in BOOLEAN : processPlanFactData(newFirst)
    \/ processProjectResources
SpecAggregation == InitAggregation /\ [][NextAggregation]_vars

\* ------------------------------------------------------------ getDateRange
\* An instant is a number of hours since 00:00 UTC on 1 January of Year, a
\* year of 365 days; the host's local time is UTC + offset hours, without
\* daylight saving.  A date is [year, month 1..12, day].
DaysInMonth(m) ==
    CASE m \in {0, 2, 4, 6, 7, 9, 11} -> 31
      [] m \in {3, 5, 8, 10} -> 30
      [] m = 1 -> 28

\* The number of days of the year before month m (0..12).
RECURSIVE FirstDayOf(_)
FirstDayOf(m) == IF m = 0 THEN 0 ELSE FirstDayOf(m - 1) + DaysInMonth(m - 1)

\* new Date(now.getFullYear(), m, d): midnight local time; a day 0 is the
\* last day of the month before, month 12 is January of the next year.
NewDate(m, d, offset) == (FirstDayOf(m) + d - 1) * 24 - offset

\* The UTC date of the day with the given number, for days of Year and of
\* the months next to it.
CivilDate(n) ==
    IF n < 0 THEN [year |-> Year - 1, month |-> 12, day |-> 31 + n + 1]
    ELSE IF n >= FirstDayOf(12)
    THEN [year |-> Year + 1, month |-> 1, day |-> n - FirstDayOf(12) + 1]
    ELSE LET m == CHOOSE k \in 0..11 :
                      FirstDayOf(k) <= n /\ n < FirstDayOf(k + 1)
         IN [year |-> Year, month |-> m + 1, day |-> n - FirstDayOf(m) + 1]

\* formatDate (lines 849-851): the date part of toISOString(), which is
\* the date in UTC.
formatDate(instant) == CivilDate(instant \div 24)

\* new Date('YYYY-MM-DD') for the day with the given number: midnight UTC.
ParsedDate(n) == n * 24

NoDate == -1000
Periods == {"week", "month", "quarter", "year", "custom", "all"}
Offsets == {-5, 0, 3}
LocalHours == {0, 12, 23}
CustomDays == {NoDate, 69}
LocalDays(m) == {1, 15, DaysInMonth(m)}

\* The two instants `from` and `to` of the switch of lines 819-847.
DateRange(period, now, month, offset, customFrom, customTo) ==
    CASE period = "week" -> [from |-> now - 7 * 24, to |-> now]
      [] period = "month" ->
            [from |-> NewDate(month, 1, offset),
             to |-> NewDate(month + 1, 0, offset)]
      [] period = "quarter" ->
            LET quarter == month \div 3 IN
            [from |-> NewDate(quarter * 3, 1, offset),
             to |-> NewDate((quarter + 1) * 3, 0, offset)]
      [] period = "year" ->
            [from |-> NewDate(0, 1, offset), to |-> NewDate(11, 31, offset)]
      [] period = "custom" ->
            [from |-> IF customFrom # NoDate THEN ParsedDate(customFrom)
                      ELSE now,
             to |-> IF customTo # NoDate THEN ParsedDate(customTo)
                    ELSE now]
      [] OTHER -> [from |-> now - 30 * 24, to |-> now]

\* getDateRange(period, customFrom, customTo) (lines 815-857).
getDateRange ==
    /\ dr.pc = "called"
    /\ LET now == NewDate(dr.month, dr.day, dr.offset) + dr.hour
           range == DateRange(dr.period, now, dr.month, dr.offset,
                              dr.customFrom, dr.customTo)
       IN dr' = [dr EXCEPT !.pc = "returned",
                           !.from = formatDate(range.from),
                           !.to = formatDate(range.to)]
    /\ UNCHANGED <<service, pf, pr, qs, ui>>

NextDateRange == getDateRange

\* The host's local date and hour and its UTC offset at the call, and the
\* arguments.
InitDateRange ==
    /\ Constructed
    /\ total = 0
    /\ dr \in {[pc |-> "called", period |-> p, month |-> m, day |-> d,
                hour |-> h, offset |-> o, customFrom |-> cf,
                customTo |-> ct, from |-> CivilDate(0),
                to |-> CivilDate(0)] :
                  p \in Periods, m \in 0..11, d \in 1..31, h \in LocalHours,
                  o \in Offsets, cf \in CustomDays, ct \in CustomDays}
    /\ dr.day \in LocalDays(dr.month)
    /\ dr.period # "custom" => dr.customFrom = NoDate /\ dr.customTo = NoDate
    /\ pf = NoPlanFact /\ pr = NoCall /\ qs = NoCall /\ ui = NoLoads

SpecDateRange == InitDateRange /\ [][NextDateRange]_vars

\* ------------------------------------------- the query string, typed values
\* A scalar value of a parameter object, with its JavaScript type.
Scalar(type, str, num, bool) ==
    [type |-> type, str |-> str, num |-> num, bool |-> bool]
VUndefined == Scalar("undefined", "", 0, FALSE)
VNull == Scalar("null", "", 0, FALSE)
VString(s) == Scalar("string", s, 0, FALSE)
VNumber(n) == Scalar("number", "", n, FALSE)
VBoolean(b) == Scalar("boolean", "", 0, b)

\* The decimal form of a number.
NumberString(n) ==
    CASE n = 0 -> "0" [] n = 1 -> "1" [] n = 2 -> "2" [] n = 3 -> "3"
      [] n = 50 -> "50"

\* URLSearchParams.append turns the value into a string.
StringOf(v) ==
    CASE v.type = "string" -> v.str
      [] v.type = "number" -> NumberString(v.num)
      [] v.type = "boolean" -> IF v.bool THEN "true" ELSE "false"
      [] v.type = "null" -> "null"
      [] v.type = "undefined" -> "undefined"

\* value !== undefined && value !== null
Defined(v) == v.type \notin {"undefined", "null"}

\* A test of the value's truthiness in the place of value !== ''.
NotEmptyTruthy(v) ==
    \/ v.type = "string" /\ v.str # ""
    \/ v.type = "number" /\ v.num # 0
    \/ v.type = "boolean" /\ v.bool

\* value !== ''
NotEmpty(v) == v # VString("")

\* One key of a parameter object: a scalar, a plain object with its
\* <<key, value>> pairs in insertion order, or an array with its elements.
ScalarParam(key, v) ==
    [key |-> key, type |-> "scalar", value |-> v, fields |-> <<>>,
     items |-> <<>>]
ObjectParam(key, fields) ==
    [key |-> key, type |-> "object", value |-> VUndefined,
     fields |-> fields, items |-> <<>>]
ArrayParam(key, items) ==
    [key |-> key, type |-> "array", value |-> VUndefined, fields |-> <<>>,
     items |-> items]

\* Lines 33-37: filter[k]=v for the filter keys with a value.
RECURSIVE FilterFields(_)
FilterFields(fields) ==
    IF fields = <<>> THEN <<>>
    ELSE LET k == Head(fields)[1]
             v == Head(fields)[2]
         IN (IF Defined(v) /\ NotEmpty(v)
             THEN << <<"filter", k, StringOf(v)>> >> ELSE <<>>)
            \o FilterFields(Tail(fields))

\* Lines 39-42: select[i]=f for the elements from index i - 1 on.
RECURSIVE SelectFields(_, _)
SelectFields(items, i) ==
    IF i > Len(items) THEN <<>>
    ELSE << <<"select", NumberString(i - 1), StringOf(items[i])>> >>
         \o SelectFields(items, i + 1)

\* Lines 30-46 for one key of the parameter object.
ParamFields(p) ==
    IF p.type = "scalar"
    THEN IF Defined(p.value) /\ NotEmpty(p.value)
         THEN << <<p.key, "", StringOf(p.value)>> >> ELSE <<>>
    ELSE IF p.key = "filter" THEN FilterFields(p.fields)
    ELSE IF p.key = "select" THEN SelectFields(p.items, 1)
    ELSE <<>>

\* Lines 27-48: the fields appended for the keys in insertion order.
RECURSIVE URLSearchParams(_)
URLSearchParams(params) ==
    IF params = <<>> THEN <<>>
    ELSE ParamFields(Head(params)) \o URLSearchParams(Tail(params))

\* The parameter objects drawn: scalars of every type under two keys, a
\* filter of up to MaxFilterKeys keys, a select list, and an order object.
FilterValues ==
    {VUndefined, VNull, VString(""), VString("Y"), VNumber(0),
     VBoolean(FALSE)}
FilterKeys == {"ACTIVE", "STATUS"}
FilterObjects ==
    {f \in UNION {[1..n -> FilterKeys \X FilterValues] :
                      n \in 0..MaxFilterKeys} :
        \A i, j \in DOMAIN f : i # j => f[i][1] # f[j][1]}
SelectLists ==
    {<<>>, <<VString("ID")>>, <<VString("ID"), VString("NAME")>>}
ParamPool ==
    {ScalarParam("start", v) :
        v \in {VUndefined, VNull, VString(""), VNumber(0), VNumber(50)}}
    \cup {ScalarParam("active", v) :
        v \in {VBoolean(FALSE), VBoolean(TRUE), VString("Y"), VString("")}}
    \cup {ObjectParam("filter", f) : f \in FilterObjects}
    \cup {ArrayParam("select", s) : s \in SelectLists}
    \cup {ObjectParam("order", << <<"ID", VString("ASC")>> >>)}
ParamObjects ==
    {p \in UNION {[1..n -> ParamPool] : n \in 0..MaxParams} :
        \A i, j \in DOMAIN p : i # j => p[i].key # p[j].key}

\* The part of callMethod that builds the query string (lines 27-48).
buildQuery ==
    /\ qs.pc = "called"
    /\ qs' = [qs EXCEPT !.pc = "built",
                        !.query = URLSearchParams(qs.params)]
    /\ UNCHANGED <<service, pf, pr, dr, ui>>

NextQuery == buildQuery

InitQuery ==
    /\ Constructed
    /\ total = 0
    /\ qs \in {[pc |-> "called", params |-> p, query |-> <<>>] :
                  p \in ParamObjects}
    /\ pf = NoPlanFact /\ pr = NoCall /\ dr = NoCall /\ ui = NoLoads

SpecQuery == InitQuery /\ [][NextQuery]_vars

\* ------------------------------------------------- the loads of the tables
\* What the service holds while the tables are loaded: the tasks of
\* project 10 for the resources report, and two finished tasks.
LoadResourceTasks ==
    << ResourceTask("1", "", "5", "3600", "7200"),
       ResourceTask("2", "1", "5", "7200", "3600"),
       ResourceTask("3", "2", "7", "abc", "3600") >>
LoadPlanFactTasks ==
    << PlanFactTask("1", <<"A">>, "10", "5", "3600", "7200"),
       PlanFactTask("5", <<>>, "20", "5", "3600", "3600") >>
ProjectFilters == {"", "10", "20"}

\* The rows getPlanFactData resolves with when filters.projectId is given
\* (lines 552-554, 563-592), '' standing for no project filter.
PlanFactData(projectId) ==
    Sorted(Pushed(Grouped(
        SelectSeq(LoadPlanFactTasks,
                  LAMBDA t : projectId = "" \/ t.groupId = projectId))))

\* The rows getProjectResources resolves with (lines 599-615).
ResourcesData(detailLevel) == ResourceRows(LoadResourceTasks, detailLevel)

\* The data awaited by a load.
LoadData(load) ==
    IF load.kind = "planFact" THEN PlanFactData(load.projectId)
    ELSE ResourcesData(load.detailLevel)

\* showLoading (lines 521-524).
Loading == [state |-> "loading", rows |-> <<>>]

\* loadPlanFactData(filters) up to its await (lines 337-344), started by
\* switchTab or applyFilters, which do not wait for an earlier load.
loadPlanFactData(projectId) ==
    /\ Len(ui.loads) < MaxLoads
    /\ ui' = [ui EXCEPT
                !.loads = Append(@, [kind |-> "planFact", pc |-> "awaiting",
                                     projectId |-> projectId,
                                     detailLevel |-> 0]),
                !.table.planFact = Loading]
    /\ UNCHANGED <<service, pf, pr, dr, qs>>

\* loadProjectResourcesData up to its await (lines 356-370), for a selected
\* project, started by the change handlers of lines 259-275 or by
\* switchTab.
loadProjectResourcesData(detailLevel) ==
    /\ Len(ui.loads) < MaxLoads
    /\ ui' = [ui EXCEPT
                !.loads = Append(@, [kind |-> "projectResources",
                                     pc |-> "awaiting", projectId |-> "10",
                                     detailLevel |-> detailLevel]),
                !.table.projectResources = Loading]
    /\ UNCHANGED <<service, pf, pr, dr, qs>>

\* The promise awaited by load i settles: the data is stored in
\* currentData and rendered (lines 345-348, 372-374), or the error is shown
\* (lines 350-353, 376-379).
Settle(i, ok) ==
    /\ i \in DOMAIN ui.loads
    /\ ui.loads[i].pc = "awaiting"
    /\ LET load == ui.loads[i]
           data == LoadData(load)
       IN IF ok
          THEN ui' = [ui EXCEPT
                        !.loads[i].pc = "rendered",
                        !.currentData[load.kind] = data,
                        !.table[load.kind] =
                            [state |-> "rendered", rows |-> data]]
          ELSE ui' = [ui EXCEPT !.loads[i].pc = "failed", !.error = TRUE]
    /\ UNCHANGED <<service, pf, pr, dr, qs>>

NextLoads ==
    \/ \E projectId \in ProjectFilters : loadPlanFactData(projectId)
    \/ \E detailLevel \in DetailLevels :
           loadProjectResourcesData(detailLevel)
    \/ \E i \in 1..MaxLoads, ok \in BOOLEAN : Settle(i, ok)

SpecLoads == Init /\ [][NextLoads]_vars

\* ------------------------------------------------------------------ claims
Abs(x) == IF x >= 0 THEN x ELSE 0 - x

\* C1: two requests that are in flight at the same time were dispatched at
\* least RateDelay (1000 ms) apart, however many callers are waiting.
C1_OverlappingDispatchesApart ==
    \A a, b \in Calls :
        (a # b /\ calls[a].pc = "fetch" /\ calls[b].pc = "fetch")
            => Abs(calls[a].lastDisp - calls[b].lastDisp) >= RateDelay

C3_ServedWithinTTL ==
    \A c \in Calls :
        calls[c].fresh => (calls[c].hit /\ calls[c].nDisp = 0)

\* C4: two invocations with the same method and semantically equal
\* parameters use the same cache key.
C4_CanonicalKey ==
    \A a, b \in Calls :
        (/\ calls[a].pc # "idle" /\ calls[b].pc # "idle"
         /\ calls[a].req.method = calls[b].req.method
         /\ SemEq(calls[a].req.params, calls[b].req.params))
            => cacheKey(calls[a].req) = cacheKey(calls[b].req)

\* C5: callMethod never rejects with an answer whose error code is
\* QUERY_LIMIT_EXCEEDED, with or without an error_description.
C5_QuotaNeverSurfaces ==
    \A c \in Calls :
        calls[c].pc = "thrown" => ~IsQuotaAnswer(calls[c].resp)

\* C6: when the answer is a non-OK status or a service error other than the
\* quota error, the invocation rejects with that error in the same step,
\* dispatches nothing more, and leaves the cache and lastCall unchanged; a
\* rejected invocation never runs again.
C6_OtherFailurePropagates ==
    [][\A c \in Calls :
         /\ (/\ calls[c].pc = "fetch" /\ calls'[c].pc # "fetch"
             /\ IsFailure(calls'[c].resp)
             /\ ~IsQuotaAnswer(calls'[c].resp))
                => /\ calls'[c].pc = "thrown"
                   /\ calls'[c].result = JObj(ErrorMessage(calls'[c].resp))
                   /\ calls'[c].nDisp = calls[c].nDisp
                   /\ calls'[c].reentries = calls[c].reentries
                   /\ cache' = cache
                   /\ lastCall' = lastCall
         /\ calls[c].pc = "thrown" => calls'[c] = calls[c]]_vars

\* An invocation has rejected with a failure other than the quota error.
C6_Witness ==
    \E c \in Calls :
        /\ calls[c].pc = "thrown" /\ calls[c].nDisp = 1
        /\ ~IsQuotaAnswer(calls[c].resp)

\* The counts and instants of C7: every failure whose message names
\* QUERY_LIMIT_EXCEEDED is followed by exactly one recursive call, entered
\* (and so dispatching) no earlier than Backoff (2000 ms) after the failure.
C7_RetryCount ==
    \A c \in Calls :
        /\ calls[c].nFail =
              calls[c].reentries + (IF calls[c].pc = "backoff" THEN 1 ELSE 0)
        /\ (calls[c].nFail >= 1 /\ calls[c].reentries = calls[c].nFail)
              => calls[c].now >= calls[c].lastFail + Backoff
        /\ (calls[c].nFail >= 1 /\ calls[c].nDisp > 0
                /\ calls[c].dispN = calls[c].nFail)
              => calls[c].lastDisp >= calls[c].lastFail + Backoff

C8_DispatchesAreQuotaPlusOne ==
    \A c \in Calls :
        (Settled(c) /\ ~calls[c].hit)
            => calls[c].nDisp = calls[c].quotaSeen + 1

\* C9: the offsets requested by one getTasks call are 0, 50, 100, ..., at
\* most 20 of them; a page with fewer than 50 tasks (or without a task list)
\* is the last one requested; and getTasks returns only after such a page
\* or after the page at offset 950.
C9_PagesStopAtShortOrCeiling ==
    LET nReq == Len(gt.reqs)
        nGot == Len(gt.lens)
    IN /\ \A i \in 1..nReq : gt.reqs[i] = (i - 1) * PageSize
       /\ nReq * PageSize <= Ceiling
       /\ \A i \in 1..nGot : gt.lens[i] < PageSize => i = nReq
       /\ gt.pc = "done"
            => /\ nGot = nReq
               /\ \/ gt.lens[nGot] < PageSize
                  \/ gt.reqs[nReq] = Ceiling - PageSize

\* getTasks has returned after the page at offset 950, all pages being full.
C9_Witness ==
    /\ gt.pc = "done"
    /\ Len(gt.reqs) * PageSize = Ceiling
    /\ \A i \in 1..Len(gt.lens) : gt.lens[i] = PageSize

\* C10: when every page was the slice [start, start+50) of the list of
\* `total` tasks with ids 1..total, getTasks returns the first
\* min(total, 1000) tasks of the list, in ascending-id order without
\* repetition.
C10_ReturnsPrefixOfList ==
    (gt.pc = "done" /\ gt.faithful)
        => /\ gt.allTasks = [i \in 1..Min(total, Ceiling) |-> i]
           /\ \A i \in 1..(Len(gt.allTasks) - 1) :
                  gt.allTasks[i] < gt.allTasks[i + 1]

\* getTasks has returned the first 1000 tasks of a longer list.
C10_Witness ==
    /\ gt.pc = "done" /\ gt.faithful
    /\ total > Ceiling
    /\ Len(gt.allTasks) = Ceiling

\* C11: every tasks.task.list request that getTasks has sent carries the
\* ordering order[ID] = ASC in its query string, together with the start
\* offset of its page (start = 0 on the first page).
C11_PageRequestCarriesOrder ==
    page.pc = "fetch" =>
        LET query == urlParams(page.req.params) IN
        /\ Carries(query, "start", "", ToString(gt.start))
        /\ Carries(query, "order", "ID", "ASC")

\* C12: within one getTasks call at most one page request is outstanding,
\* and the page at start + 50 is requested only after every earlier page
\* has been received and was a full page.
C12_OnePageAtATime ==
    LET nReq == Len(gt.reqs)
        nGot == Len(gt.lens)
    IN /\ nReq - nGot \in {0, 1}
       /\ page.pc \in {"rate", "fetch", "backoff"} => nGot = nReq - 1
       /\ \A i \in 1..nReq :
              /\ gt.reqs[i] = (i - 1) * PageSize
              /\ i < nReq => i <= nGot /\ gt.lens[i] >= PageSize

\* The second page is in flight, after a full first page was received.
C12_Witness ==
    /\ page.pc = "fetch"
    /\ Len(gt.reqs) = 2
    /\ Len(gt.lens) = 1
    /\ gt.lens[1] = PageSize

\* C13: an invocation that returned the answer of the service returned the
\* value of the body's result field, whatever that value is, and cached
\* that same value.
C13_ReturnsResultField ==
    \A c \in Calls :
        LET rec == calls[c] IN
        (/\ rec.pc = "returned"
         /\ rec.nDisp > 0
         /\ ~IsFailure(rec.resp)
         /\ rec.resp.result.type # "undefined")
            => rec.result = rec.resp.result

\* C14: a cache entry is stamped with the time at which it was stored, the
\* instant of the answer that is also recorded as the last-call time.
C14_StampedWhenStored ==
    \A key \in DOMAIN cache : cache[key].timestamp = cache[key].stored

\* History: an invocation was served from the cache on entry.
ServedOnEntry(c) ==
    /\ calls[c].pc = "idle"
    /\ calls'[c].pc # "idle"
    /\ CacheHit(cacheKey(calls'[c].req), clock)

\* C15: an invocation that finds a live cache entry on entry returns that
\* entry's data in the same step, without a rate-limit suspension and
\* without a request, and leaves rateLimit.lastCall and the cache as they
\* were.
C15_CacheHitTouchesNothing ==
    [][\A c \in Calls :
          ServedOnEntry(c) =>
              /\ calls'[c].pc = "returned"
              /\ calls'[c].result = cache[cacheKey(calls'[c].req)].data
              /\ calls'[c].nDisp = 0
              /\ clock' = clock
              /\ lastCall' = lastCall
              /\ cache' = cache]_vars

\* An invocation was served from the cache less than RateDelay after the
\* last successful answer, when a request would have had to wait.
C15_Witness ==
    \E c \in Calls :
        /\ calls[c].hit
        /\ calls[c].pc = "returned"
        /\ calls[c].now - lastCall < RateDelay

\* C16: no step of callMethod removes a cache entry.  In every step other
\* than refreshData every key stays in the cache, and an entry changes only
\* when an invocation for its key returns the answer of the service; a
\* lookup that finds an expired entry leaves it in place.
C16_OnlyClearShrinks ==
    [][\/ \E r \in Calls : refreshData(r)
       \/ \A key \in DOMAIN cache :
              /\ key \in DOMAIN cache'
              /\ cache'[key] # cache[key] =>
                     \E c \in Calls :
                         /\ calls[c].pc = "fetch"
                         /\ calls'[c].pc = "returned"
                         /\ cacheKey(calls[c].req) = key]_vars

\* An invocation found the entry of its key expired and went on to the
\* service, and the expired entry is still in the cache.
C16_Witness ==
    \E c \in Calls :
        LET key == cacheKey(calls[c].req) IN
        /\ calls[c].pc = "fetch"
        /\ key \in DOMAIN cache
        /\ calls[c].now - cache[key].timestamp >= CacheTTL

\* The call of processPlanFactData returned rows without an exception.
PlanFactDone == pf.pc = "returned" /\ ~pf.raised

\* The rows of the group `key` in the output: its detail rows and its
\* summary rows, by their positions.
DetailRows(key) ==
    {i \in DOMAIN pf.rows : ~pf.rows[i].isSummary /\ pf.rows[i].key = key}
SummaryRows(key) ==
    {i \in DOMAIN pf.rows : pf.rows[i].isSummary /\ pf.rows[i].key = key}

\* The retained tasks of the input, by their positions, and their groups.
RetainedTasks == {i \in DOMAIN pf.tasks : Retained(pf.tasks[i])}
GroupKeys == {GroupKey(pf.tasks[i]) : i \in RetainedTasks}

RECURSIVE SumActual(_)
SumActual(is) ==
    IF is = {} THEN 0
    ELSE LET i == CHOOSE x \in is : TRUE
         IN Plus(pf.rows[i].actualHours, SumActual(is \ {i}))
RECURSIVE SumPlanned(_)
SumPlanned(is) ==
    IF is = {} THEN 0
    ELSE LET i == CHOOSE x \in is : TRUE
         IN Plus(pf.rows[i].plannedHours, SumPlanned(is \ {i}))

\* The hours the retained tasks of group `key` bring in, from the input.
RECURSIVE InputHours(_, _, _)
InputHours(is, key, planned) ==
    IF is = {} THEN 0
    ELSE LET i == CHOOSE x \in is : TRUE
             task == pf.tasks[i]
             hours == IF GroupKey(task) # key THEN 0
                      ELSE IF planned THEN Hours(Seconds(task.timeEstimate))
                      ELSE Hours(Seconds(task.timeSpentInLogs))
         IN Plus(hours, InputHours(is \ {i}, key, planned))

\* C17: in the output of processPlanFactData the summary row of every
\* (project id, user id) group carries the sums of the actual and of the
\* planned hours of that group's detail rows, which are the hours of the
\* group's tasks in the input, also when a task id occurs more than once
\* (sums are taken with the `+` of the program, under which a sum with a
\* NaN addend is NaN).
C17_SummaryIsSumOfDetails ==
    PlanFactDone =>
        \A i \in DOMAIN pf.rows :
            pf.rows[i].isSummary =>
                LET key == pf.rows[i].key IN
                /\ pf.rows[i].actualHours = SumActual(DetailRows(key))
                /\ pf.rows[i].plannedHours = SumPlanned(DetailRows(key))
                /\ pf.rows[i].actualHours
                       = InputHours(RetainedTasks, key, FALSE)
                /\ pf.rows[i].plannedHours
                       = InputHours(RetainedTasks, key, TRUE)

\* The output for a list in which a task id occurs twice in one group,
\* beside another task of the group.
C17_Witness ==
    /\ PlanFactDone
    /\ \E i, j \in RetainedTasks :
           /\ i # j
           /\ pf.tasks[i].id = pf.tasks[j].id
           /\ GroupKey(pf.tasks[i]) = GroupKey(pf.tasks[j])
           /\ Cardinality(DetailRows(GroupKey(pf.tasks[i]))) = 2
           /\ \E s \in SummaryRows(GroupKey(pf.tasks[i])) :
                  pf.rows[s].actualHours > 0

\* C18: in the sorted output the detail rows of every (project id, user
\* id) group are contiguous and the group's summary row comes right after
\* the last of them.
C18_GroupsAreContiguous ==
    PlanFactDone =>
        \A s \in DOMAIN pf.rows :
            pf.rows[s].isSummary =>
                LET details == DetailRows(pf.rows[s].key) IN
                details = (s - Cardinality(details))..(s - 1)

\* A task of the input has left a detail row in the output.
Contributes(task) ==
    \E i \in DOMAIN pf.rows :
        /\ ~pf.rows[i].isSummary
        /\ pf.rows[i].taskId = task.id
        /\ pf.rows[i].key[1] = task.groupId

\* C19: processPlanFactData discards a task exactly when the task lacks
\* both its groupId and its responsibleId; a task that has one of the two
\* leaves a detail row.
C19_DiscardsOnlyWithoutBothIds ==
    PlanFactDone =>
        \A i \in DOMAIN pf.tasks :
            LET task == pf.tasks[i] IN
            ~Contributes(task)
                <=> (task.groupId = "" /\ task.responsibleId = "")

\* C20: the output has exactly one summary row for every (project id, user
\* id) pair of the retained tasks and exactly one detail row for every
\* task id of such a pair, and no other row.
C20_OneRowPerTaskAndGroup ==
    PlanFactDone =>
        /\ \A key \in GroupKeys :
               /\ Cardinality(SummaryRows(key)) = 1
               /\ \A i \in RetainedTasks :
                      GroupKey(pf.tasks[i]) = key =>
                          Cardinality({d \in DetailRows(key) :
                                          pf.rows[d].taskId = pf.tasks[i].id})
                              = 1
               /\ \A d \in DetailRows(key) :
                      \E i \in RetainedTasks :
                          /\ GroupKey(pf.tasks[i]) = key
                          /\ pf.tasks[i].id = pf.rows[d].taskId
        /\ \A i \in DOMAIN pf.rows : pf.rows[i].key \in GroupKeys
        /\ Cardinality({i \in DOMAIN pf.rows : pf.rows[i].isSummary})
               = Cardinality(GroupKeys)

\* The output for a list with a repeated task id and with two groups.
C20_Witness ==
    /\ PlanFactDone
    /\ Cardinality(GroupKeys) = 2
    /\ \E i, j \in RetainedTasks :
           /\ i # j
           /\ pf.tasks[i].id = pf.tasks[j].id
           /\ GroupKey(pf.tasks[i]) = GroupKey(pf.tasks[j])

\* C21: a duration that is missing, empty or not a number counts as 0
\* hours: no row of the output of processPlanFactData carries NaN.
C21_NoRowCarriesNaN ==
    PlanFactDone =>
        \A i \in DOMAIN pf.rows :
            /\ ~isNaN(pf.rows[i].actualHours)
            /\ ~isNaN(pf.rows[i].plannedHours)

\* The call of processProjectResources returned rows without an exception.
ResourcesDone == pr.pc = "returned" /\ ~pr.raised

\* The positions of the rows of the output that are not the totals.
TaskRows == {i \in DOMAIN pr.rows : ~pr.rows[i].isProjectTotal}

\* The sum over the input tasks of the hours of one duration field, a
\* field that is missing, empty or not a number counting as 0.
RECURSIVE InputTotal(_, _)
InputTotal(is, planned) ==
    IF is = {} THEN 0
    ELSE LET i == CHOOSE x \in is : TRUE
             field == IF planned THEN pr.tasks[i].timeEstimate
                      ELSE pr.tasks[i].timeSpentInLogs
             seconds == IF field \in {"3600", "7200"} THEN parseInt(field)
                        ELSE 0
         IN seconds \div 3600 + InputTotal(is \ {i}, planned)

\* C22: the project-total row carries the sums of the actual and of the
\* planned hours of all input tasks, and the same row is returned for every
\* detailLevel.
C22_TotalIsSumOfAllTasks ==
    ResourcesDone =>
        LET last == pr.rows[Len(pr.rows)] IN
        /\ last.isProjectTotal
        /\ last.actualHours = InputTotal(DOMAIN pr.tasks, FALSE)
        /\ last.plannedHours = InputTotal(DOMAIN pr.tasks, TRUE)
        /\ \A d \in DetailLevels :
               LET other == ResourceRows(pr.tasks, d) IN
               other[Len(other)] = last

\* The output for a list with tasks below the detail level, whose hours
\* are in the totals and in no other row.
C22_Witness ==
    /\ ResourcesDone
    /\ Cardinality(TaskRows) < Len(pr.tasks)
    /\ pr.rows[Len(pr.rows)].actualHours > 2
    /\ \E i \in DOMAIN pr.tasks : pr.tasks[i].timeEstimate = "abc"

\* C23: no row of a task has a level greater than detailLevel.
C23_NoRowBelowDetailLevel ==
    ResourcesDone =>
        \A i \in TaskRows : pr.rows[i].level <= pr.detailLevel

\* The output for a chain 1 <- 2 <- 3 cut at detailLevel 1: the row of
\* task 2 is the deepest.
C23_Witness ==
    /\ ResourcesDone
    /\ pr.detailLevel = 1
    /\ \E i, j, k \in DOMAIN pr.tasks :
           /\ pr.tasks[i].id = "1"
           /\ pr.tasks[j].id = "2"
           /\ pr.tasks[k].id = "3"
    /\ \E i \in TaskRows : pr.rows[i].taskId = "2" /\ pr.rows[i].level = 1
    /\ \A i \in TaskRows : pr.rows[i].taskId # "3"

\* C24: the output has exactly one project-total row, that row is the
\* last one, and the rows before it are in the order of the traversal.
C24_TotalRowIsLast ==
    ResourcesDone =>
        LET n == Len(pr.rows)
            entries == TaskMap(pr.tasks)
        IN /\ n >= 1
           /\ {i \in DOMAIN pr.rows : pr.rows[i].isProjectTotal} = {n}
           /\ SubSeq(pr.rows, 1, n - 1)
                  = flattenHierarchy(Hierarchy(entries), 0, pr.detailLevel,
                                     entries)

\* The output for a list of at least three emitted tasks with several
\* roots.
C24_Witness ==
    /\ ResourcesDone
    /\ Cardinality(TaskRows) >= 3
    /\ \E i, j \in TaskRows :
           i # j /\ pr.rows[i].level = 0 /\ pr.rows[j].level = 0

\* C25: a task whose parentId is empty or is the id of no task of the
\* list has exactly one row, and that row has level 0.
C25_BrokenLinkIsRoot ==
    ResourcesDone =>
        \A i \in DOMAIN pr.tasks :
            LET task == pr.tasks[i] IN
            (\/ task.parentId = ""
             \/ \A j \in DOMAIN pr.tasks : pr.tasks[j].id # task.parentId)
                => /\ Cardinality({r \in TaskRows :
                                      pr.rows[r].taskId = task.id}) = 1
                   /\ \A r \in TaskRows :
                          pr.rows[r].taskId = task.id
                              => pr.rows[r].level = 0

\* The output for a list with the task whose parent 7 is missing, at
\* detailLevel 0.
C25_Witness ==
    /\ ResourcesDone
    /\ pr.detailLevel = 0
    /\ \E i \in DOMAIN pr.tasks : pr.tasks[i].parentId = "7"
    /\ \E r \in TaskRows : pr.rows[r].taskId = "4" /\ pr.rows[r].level = 0

\* The task of the input with the given id, and its depth in the forest:
\* 0 for a root, one more than its parent otherwise, -1 for a task that
\* hangs on no root.
InputTask(id) ==
    pr.tasks[CHOOSE i \in DOMAIN pr.tasks : pr.tasks[i].id = id]
InputRoot(task) ==
    \/ task.parentId = ""
    \/ \A j \in DOMAIN pr.tasks : pr.tasks[j].id # task.parentId
RECURSIVE Depth(_, _)
Depth(task, fuel) ==
    IF InputRoot(task) THEN 0
    ELSE IF fuel = 0 THEN -1
    ELSE LET above == Depth(InputTask(task.parentId), fuel - 1)
         IN IF above = -1 THEN -1 ELSE above + 1
InputPosition(id) == CHOOSE i \in DOMAIN pr.tasks : pr.tasks[i].id = id

\* C26: the rows of the tasks are a pre-order walk of the forest.  Every
\* task whose depth is at most detailLevel has exactly one row, at the
\* level of its depth, and no other task has a row; roots, and the
\* children of one task, are in input order; the nearest row above a
\* child's row with a smaller level is the row of its parent.
C26_RowsArePreOrder ==
    ResourcesDone =>
        /\ \A i \in DOMAIN pr.tasks :
               LET task == pr.tasks[i]
                   depth == Depth(task, Len(pr.tasks))
                   rows == {r \in TaskRows : pr.rows[r].taskId = task.id}
               IN IF depth >= 0 /\ depth <= pr.detailLevel
                  THEN /\ Cardinality(rows) = 1
                       /\ \A r \in rows : pr.rows[r].level = depth
                  ELSE rows = {}
        /\ \A r, q \in TaskRows :
               (/\ r < q
                /\ pr.rows[r].level = 0
                /\ pr.rows[q].level = 0)
                   => InputPosition(pr.rows[r].taskId)
                          < InputPosition(pr.rows[q].taskId)
        /\ \A r \in TaskRows :
               pr.rows[r].level > 0 =>
                   \E q \in TaskRows :
                       /\ q < r
                       /\ pr.rows[q].level = pr.rows[r].level - 1
                       /\ pr.rows[q].taskId
                              = InputTask(pr.rows[r].taskId).parentId
                       /\ \A m \in (q + 1)..(r - 1) :
                              pr.rows[m].level >= pr.rows[r].level

\* The output for a list in which a child comes before its parent and a
\* second root follows: the child's row is between the two roots.
C26_Witness ==
    /\ ResourcesDone
    /\ \E i, j \in DOMAIN pr.tasks :
           i < j /\ pr.tasks[i].parentId = pr.tasks[j].id
    /\ \E r \in TaskRows :
           /\ r + 2 \in TaskRows
           /\ pr.rows[r].level = 0
           /\ pr.rows[r + 1].level = 1
           /\ pr.rows[r + 2].level = 0

\* C27: a call of processPlanFactData or of processProjectResources in
\* which an exception is raised returns, throws nothing, and returns the
\* empty list.
C27_ExceptionGivesEmptyList ==
    /\ pf.pc \in {"idle", "called", "returned"}
    /\ pr.pc \in {"idle", "called", "returned"}
    /\ (pf.pc = "returned" /\ pf.raised) => pf.rows = <<>>
    /\ (pr.pc = "returned" /\ pr.raised) => pr.rows = <<>>

\* processPlanFactData has returned from an exception raised by the
\* comparator, after rows of two projects had been collected.
C27_Witness ==
    /\ pf.pc = "returned"
    /\ pf.raised
    /\ pf.users = "list"
    /\ pf.projects = "unnamed"
    /\ \E i, j \in DOMAIN pf.tasks :
           /\ Retained(pf.tasks[i]) /\ pf.tasks[i].groupId = "10"
           /\ Retained(pf.tasks[j]) /\ pf.tasks[j].groupId = "20"

\* The first and the last date of the host's local month, and of its local
\* quarter, at the call.
LocalMonthStart == [year |-> Year, month |-> dr.month + 1, day |-> 1]
LocalMonthEnd ==
    [year |-> Year, month |-> dr.month + 1, day |-> DaysInMonth(dr.month)]
LocalQuarterStart ==
    [year |-> Year, month |-> 3 * (dr.month \div 3) + 1, day |-> 1]
LocalQuarterEnd ==
    [year |-> Year, month |-> 3 * (dr.month \div 3) + 3,
     day |-> DaysInMonth(3 * (dr.month \div 3) + 2)]

\* C28: getDateRange('month') returns the first and the last day of the
\* host's current local month, whatever the UTC offset and the hour.
C28_MonthIsLocalMonth ==
    (dr.pc = "returned" /\ dr.period = "month") =>
        /\ dr.from = LocalMonthStart
        /\ dr.to = LocalMonthEnd

\* C29: getDateRange('quarter') returns the first and the last day of the
\* host's current local quarter: neither date is in another quarter.
C29_QuarterIsLocalQuarter ==
    (dr.pc = "returned" /\ dr.period = "quarter") =>
        /\ dr.from = LocalQuarterStart
        /\ dr.to = LocalQuarterEnd

\* A value that is neither undefined nor null nor the empty string.
HasValue(v) ==
    /\ v.type # "undefined"
    /\ v.type # "null"
    /\ ~(v.type = "string" /\ v.str = "")

\* The fields the query is to contain for the parameter object.
ExpectedFields ==
    {<<"filter", f[1], StringOf(f[2])>> :
        f \in {g \in UNION {{p.fields[i] : i \in DOMAIN p.fields} :
                      p \in {q \in Leaves(qs.params) :
                                q.type = "object" /\ q.key = "filter"}} :
                  HasValue(g[2])}}
    \cup UNION {{<<"select", NumberString(i - 1), StringOf(p.items[i])>> :
                    i \in DOMAIN p.items} :
                p \in {q \in Leaves(qs.params) :
                          q.type = "array" /\ q.key = "select"}}
    \cup {<<p.key, "", StringOf(p.value)>> :
            p \in {q \in Leaves(qs.params) :
                      q.type = "scalar" /\ HasValue(q.value)}}

\* C30: the query holds filter[K]=v for exactly the filter keys with a
\* value, select[i]=f for every selected field, key=v for exactly the
\* scalars with a value (0 and false included), each once, nothing else.
C30_QueryHoldsExactlyTheValues ==
    qs.pc = "built" =>
        /\ Leaves(qs.query) = ExpectedFields
        /\ Len(qs.query) = Cardinality(ExpectedFields)

\* A scalar 0 and a filter value false are sent while an empty filter
\* value is left out, beside an order object.
C30_Witness ==
    /\ qs.pc = "built"
    /\ qs.params = << ScalarParam("start", VNumber(0)),
                      ObjectParam("filter",
                          << <<"ACTIVE", VBoolean(FALSE)>>,
                             <<"STATUS", VString("")>> >>),
                      ObjectParam("order", << <<"ID", VString("ASC")>> >>) >>
    /\ qs.query = << <<"start", "", "0">>, <<"filter", "ACTIVE", "false">> >>

\* C31: two invocations of callMethod with the same method and parameters
\* that are in progress at the same time share one network request: they
\* never both have a request in flight.
C31_OneRequestForSameKey ==
    \A c, d \in Calls :
        (/\ c # d
         /\ calls[c].req = calls[d].req
         /\ calls[c].pc = "fetch") => calls[d].pc # "fetch"

\* C32: a request that is in flight when refreshData clears the cache does
\* not put its result into the cache, so no invocation made after the clear
\* is served a payload fetched before it.
C32_ClearedRequestStoresNothing ==
    \A key \in DOMAIN cache : ~cache[key].cleared

\* C33: the pages concatenated by one getTasks call are of one generation:
\* either all of them were served from the cache or all of them were
\* fetched from the network.
C33_PagesOfOneGeneration ==
    \A i, j \in DOMAIN gt.cached : gt.cached[i] = gt.cached[j]

\* C34: when a page request of getTasks rejects, getTasks rejects with the
\* same error and hands no task list to its caller, and the caller,
\* getPlanFactData or getProjectResources, rejects with that error and
\* produces no rows.
C34_RejectionHandsNothing ==
    /\ (gt.pc = "await" /\ page.pc = "thrown") => gt.out = Pending
    /\ gt.pc = "rejected" =>
          /\ page.pc = "thrown"
          /\ gt.out.pc = "rejected"
          /\ gt.out.error = page.result
          /\ gt.out.tasks = <<>>
          /\ gt.report.pc = "rejected"
          /\ gt.report.error = page.result
          /\ gt.report.rows = <<>>

\* getProjectResources rejected at the second page, after a full first
\* page had been collected.
C34_Witness ==
    /\ gt.pc = "rejected"
    /\ gt.caller = "getProjectResources"
    /\ Len(gt.allTasks) = PageSize
    /\ gt.start = PageSize
    /\ gt.report.pc = "rejected"

\* The sum of the hours of the rows at the given positions.
RECURSIVE RowTotal(_, _)
RowTotal(is, planned) ==
    IF is = {} THEN 0
    ELSE LET i == CHOOSE x \in is : TRUE
         IN (IF planned THEN pr.rows[i].plannedHours
             ELSE pr.rows[i].actualHours) + RowTotal(is \ {i}, planned)

\* C35: when detailLevel is at least the depth of every input task, every
\* input task has exactly one row, and the hours of the rows of the tasks
\* add up to the hours of the project-total row; tasks on a cycle of parent
\* links, which have no depth, included.
C35_RowsAddUpToTotal ==
    (/\ ResourcesDone
     /\ \A i \in DOMAIN pr.tasks :
            Depth(pr.tasks[i], Len(pr.tasks)) <= pr.detailLevel) =>
        LET last == pr.rows[Len(pr.rows)] IN
        /\ \A i \in DOMAIN pr.tasks :
               Cardinality({r \in TaskRows :
                               pr.rows[r].taskId = pr.tasks[i].id}) = 1
        /\ RowTotal(TaskRows, FALSE) = last.actualHours
        /\ RowTotal(TaskRows, TRUE) = last.plannedHours

\* The rows of `rows` that are not the totals and whose level is at most d,
\* in their order.
RECURSIVE RowsUpTo(_, _)
RowsUpTo(rows, d) ==
    IF rows = <<>> THEN <<>>
    ELSE (IF ~Head(rows).isProjectTotal /\ Head(rows).level <= d
          THEN <<Head(rows)>> ELSE <<>>) \o RowsUpTo(Tail(rows), d)

\* C36: the rows of the tasks at detailLevel d are the rows with level at
\* most d of the output at detailLevel d + 1, in the same order.
C36_DeeperLevelOnlyAddsRows ==
    ResourcesDone =>
        RowsUpTo(pr.rows, TotalLevel)
            = RowsUpTo(ResourceRows(pr.tasks, pr.detailLevel + 1),
                       pr.detailLevel)

\* A chain 1 <- 2 <- 3 with another root behind it, cut at detailLevel 1:
\* the next level adds the row of task 3 between two rows.
C36_Witness ==
    /\ ResourcesDone
    /\ pr.detailLevel = 1
    /\ Len(pr.rows) = 4
    /\ pr.rows[1].taskId = "1"
    /\ pr.rows[2].taskId = "2"
    /\ pr.rows[3].taskId = "4"
    /\ Len(ResourceRows(pr.tasks, 2)) = 5

\* The fields of a row of the program, without the history.
Visible(row) ==
    [projectName |-> row.projectName, userName |-> row.userName,
     taskTitle |-> row.taskTitle, actualHours |-> row.actualHours,
     plannedHours |-> row.plannedHours, isSummary |-> row.isSummary]
VisibleRows(rows) == [i \in DOMAIN rows |-> Visible(rows[i])]

\* The input task list in another order.
Orders(n) ==
    {f \in [1..n -> 1..n] : \A i, j \in 1..n : i # j => f[i] # f[j]}
Permuted(f) == [i \in DOMAIN pf.tasks |-> pf.tasks[f[i]]]

\* C37: the rows returned by processPlanFactData are the same for every
\* order of the input task list.
C37_OutputIgnoresInputOrder ==
    PlanFactDone =>
        \A f \in Orders(Len(pf.tasks)) :
            LET result == Pushed(Grouped(Permuted(f))) IN
            (~SortRaises(result, TRUE) /\ ~SortRaises(result, FALSE)) =>
                VisibleRows(Sorted(result)) = VisibleRows(pf.rows)

\* C38: every row, detail or summary, belongs to a user of the list that
\* the department-filtered user query returned.
C38_RowsOfListedUsersOnly ==
    PlanFactDone =>
        \A i \in DOMAIN pf.rows :
            MapGet(PlanFactUsers, pf.rows[i].key[2]) # <<>>

\* The position of the load of the given kind that was started last, 0 if
\* there is none.
LastLoad(kind) ==
    LET is == {i \in DOMAIN ui.loads : ui.loads[i].kind = kind} IN
    IF is = {} THEN 0 ELSE CHOOSE i \in is : \A j \in is : j <= i

\* C39: once every load has settled, the table and currentData of a report
\* hold the data of the load of that report that was started last.
C39_LastStartedLoadWins ==
    (\A i \in DOMAIN ui.loads : ui.loads[i].pc # "awaiting") =>
        \A kind \in {"planFact", "projectResources"} :
            LET last == LastLoad(kind) IN
            (last # 0 /\ ui.loads[last].pc = "rendered") =>
                /\ ui.currentData[kind] = LoadData(ui.loads[last])
                /\ ui.table[kind].rows = LoadData(ui.loads[last])

====
